---- MODULE Spec2Model ----
(***************************************************************************)
(* State-machine model of the branching chat tree application              *)
(* (src/src/App.jsx): the tree store, the highlight-marker codec and its   *)
(* parser, the context builder, the graph layout, the React effects that   *)
(* follow every commit, and the asynchronous reply and title requests of   *)
(* handleSend and handleBranchSend.                                        *)
(*                                                                         *)
(* Text is a sequence of atoms.  An atom is one character of ordinary text *)
(* ("a", " "), one indivisible word of a fixed string ("New", "Tree"), or  *)
(* one delimiter of the marker protocol ("[[[sel:", "]]]", "[[[/sel]]]",   *)
(* "[[[hl:", ":", "[[[/hl]]]").  Identifiers produced by                   *)
(* crypto.randomUUID() are numbers; inside text they appear as the atom    *)
(* ToString(id).                                                           *)
(*                                                                         *)
(* JavaScript objects used as maps (treesById, nodesById) keep insertion   *)
(* order, so they are sequences of records carrying their key in "id".     *)
(*                                                                         *)
(* One action is one event handler or one promise continuation together    *)
(* with the React commit it causes and the effects that run after that     *)
(* commit (Commit below).                                                  *)
(***************************************************************************)
EXTENDS Integers, Sequences, FiniteSets, TLC

VARIABLES
  treesById,          \* useState(initialTreeState.treesById)
  activeTreeId,       \* useState(initialTreeState.activeTreeId)
  tempHighlight,      \* useState(null): the live temporary highlight
  selectionPopover,   \* useState({visible:false,...})
  error,              \* useState("")
  isLoading,          \* useState(false)
  inflight,           \* network requests issued and not yet settled
  storage,            \* localStorage[STORAGE_KEY], as written by the persist effect
  steps,              \* history: handlers and continuations run so far
  seen,               \* history: kinds of completion that have happened
  markedContent,      \* one message's content, as the marker codec rewrites it
  call,               \* the codec call that produced markedContent, with its arguments
  spans,              \* what remarkBranchHighlights makes of markedContent
  openNodes,          \* nodesById of one tree, as the derived views read it
  openNodeId,         \* activeNodeId of that tree
  graphLayout,        \* useMemo(() => { ... walk("root", 0) ... }, [childrenMap])
  hiddenContext       \* buildHiddenContextForNode(activeNodeId, nodesById)

vars ==
  <<treesById, activeTreeId, tempHighlight, selectionPopover, error, isLoading,
    inflight, storage, steps, seen, markedContent, call, spans,
    openNodes, openNodeId, graphLayout, hiddenContext>>

\* the state of the App component, of the codec taken alone, and of the
\* derived views of one tree taken alone
appVars ==
  <<treesById, activeTreeId, tempHighlight, selectionPopover, error, isLoading,
    inflight, storage, steps, seen>>
codecVars == <<markedContent, call, spans>>
treeVars == <<openNodes, openNodeId, graphLayout, hiddenContext>>

----------------------------------------------------------------------------
(* Bounds of the model *)

MaxTreeIds == 2
MaxNodeIds == 2
MaxTempIds == 2
MaxMessages == 3
MaxSteps == 6

TreeIdPool == 1..MaxTreeIds
NodeIdPool == 1..MaxNodeIds
TempIdPool == 1..MaxTempIds

----------------------------------------------------------------------------
(* Program constants *)

Null == -1
RootId == 0

BRANCH_HL_START == "[[[hl:"
BRANCH_HL_END == "[[[/hl]]]"
TEMP_HL_START == "[[[sel:"
TEMP_HL_END == "[[[/sel]]]"
META_END == "]]]"

NewTreeTitle == <<"New", " ", "Tree">>
NewtreeTitle == <<"New", " ", "tree">>
fallbackTitle == <<"...">>
RootTitle == <<"Root">>
NoResponse == <<"No", " ", "response", " ", "returned.">>
FailedMessage == <<"OpenAI", " ", "error">>
NoError == <<>>

Whitespace == {" ", "\n"}
Digits == {"0", "1", "2", "3", "4", "5", "6", "7", "8", "9"}

----------------------------------------------------------------------------
(* Inputs: what the user types or selects and what the service returns *)

SendContents == {<<"a">>}
BranchDrafts == {<<>>, <<"q">>}
Replies == {<<"a", " ", "b">>}
SelectionTexts == {<<"a">>}
RawTitles == {<<>>, <<" ", "t", " ", " ", "u", " ", "v", " ", "w", " ", "x">>}
RenameTitles == {<<"Mine">>, <<"Tree", " ", "7">>}

----------------------------------------------------------------------------
(* Text helpers *)

IsWs(c) == c \in Whitespace

RECURSIVE Trim(_)
Trim(s) ==
  IF s = <<>> THEN s
  ELSE IF IsWs(Head(s)) THEN Trim(Tail(s))
  ELSE IF IsWs(s[Len(s)]) THEN Trim(SubSeq(s, 1, Len(s) - 1))
  ELSE s

\* s.replace(/\s+/g, " "): every run of whitespace becomes one space
\* (computed on the two halves of s, so that long texts need little depth)
CollapseJoin(left, right) ==
  IF left[Len(left)] = " " /\ right[1] = " " THEN left \o Tail(right) ELSE left \o right

RECURSIVE CollapseWs(_)
CollapseWs(s) ==
  IF s = <<>> THEN s
  ELSE IF Len(s) = 1 THEN (IF IsWs(s[1]) THEN <<" ">> ELSE s)
  ELSE CollapseJoin(CollapseWs(SubSeq(s, 1, Len(s) \div 2)),
                    CollapseWs(SubSeq(s, Len(s) \div 2 + 1, Len(s))))

\* s.split(" "): the pieces between single spaces (empty pieces kept)
RECURSIVE SplitSpace(_)
SplitSpace(s) ==
  IF \A i \in 1..Len(s) : s[i] # " " THEN <<s>>
  ELSE LET i == CHOOSE k \in 1..Len(s) : s[k] = " " /\ \A j \in 1..(k - 1) : s[j] # " "
       IN <<SubSeq(s, 1, i - 1)>> \o SplitSpace(SubSeq(s, i + 1, Len(s)))

\* words.join(" ")
RECURSIVE JoinSpace(_)
JoinSpace(words) ==
  IF words = <<>> THEN <<>>
  ELSE IF Len(words) = 1 THEN words[1]
  ELSE words[1] \o <<" ">> \o JoinSpace(Tail(words))

RECURSIVE FilterNonEmpty(_)
FilterNonEmpty(words) ==
  IF words = <<>> THEN <<>>
  ELSE IF Head(words) = <<>> THEN FilterNonEmpty(Tail(words))
  ELSE <<Head(words)>> \o FilterNonEmpty(Tail(words))

Slice(s, from, to) == SubSeq(s, from + 1, IF to > Len(s) THEN Len(s) ELSE to)

TitleWordCap == 4

normalizeGeneratedTitle(title, fallback) ==
  LET cleaned == Trim(CollapseWs(title))
      words == FilterNonEmpty(SplitSpace(cleaned))
  IN IF cleaned = <<>> THEN fallback
     ELSE IF words = <<>> THEN fallback
     ELSE JoinSpace(Slice(words, 0, TitleWordCap))

\* tree.title === "New Tree" || tree.title === "New tree" || /^Tree \d+$/.test(tree.title)
IsPlaceholderTitle(title) ==
  \/ title = NewTreeTitle
  \/ title = NewtreeTitle
  \/ /\ Len(title) >= 3
     /\ title[1] = "Tree"
     /\ title[2] = " "
     /\ \A i \in 3..Len(title) : title[i] \in Digits

----------------------------------------------------------------------------
(* Marker codec *)

\* `${TEMP_HL_START}${tempId}]]]`
TempStartToken(tempId) == <<TEMP_HL_START, ToString(tempId), META_END>>

\* `${BRANCH_HL_START}${highlightId}:${branchNodeId}]]]`
BranchStartToken(highlightId, branchNodeId) ==
  <<BRANCH_HL_START, ToString(highlightId), ":", ToString(branchNodeId), META_END>>

\* the atoms whose text holds the character "]"
HasBracket(atom) == atom \in {META_END, TEMP_HL_END, BRANCH_HL_END}

StartsWithAt(s, i, pat) ==
  /\ i + Len(pat) - 1 <= Len(s)
  /\ \A k \in 1..Len(pat) : s[i + k - 1] = pat[k]

\* String.prototype.indexOf: 0-based index of the first occurrence, or -1
indexOf(s, pat) ==
  IF \E i \in 1..(Len(s) + 1) : StartsWithAt(s, i, pat)
  THEN (CHOOSE i \in 1..(Len(s) + 1) :
          /\ StartsWithAt(s, i, pat)
          /\ \A j \in 1..(i - 1) : ~StartsWithAt(s, j, pat)) - 1
  ELSE -1

\* String.prototype.replaceAll(pat, rep) for a non-empty pat
RECURSIVE replaceAll(_, _, _)
replaceAll(s, pat, rep) ==
  IF s = <<>> THEN s
  ELSE IF StartsWithAt(s, 1, pat)
       THEN rep \o replaceAll(SubSeq(s, Len(pat) + 1, Len(s)), pat, rep)
       ELSE <<Head(s)>> \o replaceAll(Tail(s), pat, rep)

\* Length of the match of /\[\[\[sel:[^\]]+\]\]\]/ starting at s[1], or 0.
\* [^\]]+ takes the atoms that hold no "]"; the closing "]]]" is the atom
\* META_END, or the tail of an end token whose head "[[[/..." holds no "]".
TempStartMatchLen(s) ==
  IF s = <<>> \/ Head(s) # TEMP_HL_START THEN 0
  ELSE IF \E j \in 2..Len(s) : HasBracket(s[j])
       THEN LET j == CHOOSE k \in 2..Len(s) :
                       HasBracket(s[k]) /\ \A m \in 2..(k - 1) : ~HasBracket(s[m])
            IN IF s[j] = META_END /\ j = 2 THEN 0 ELSE j
       ELSE 0

\* content.replace(/\[\[\[sel:[^\]]+\]\]\]/g, "")
RECURSIVE RemoveTempStarts(_)
RemoveTempStarts(s) ==
  IF s = <<>> THEN s
  ELSE LET n == TempStartMatchLen(s)
       IN IF n > 0 THEN RemoveTempStarts(SubSeq(s, n + 1, Len(s)))
          ELSE <<Head(s)>> \o RemoveTempStarts(Tail(s))

stripAllTempHighlights(content) ==
  IF content = <<>> THEN content
  ELSE RemoveTempStarts(replaceAll(content, <<TEMP_HL_END>>, <<>>))

\* The pattern escapeRegex(selectedText.trim()).replace(/\s+/g, "\\s+") matched at
\* position i of s (1-based): the index after the match, or -1.  Every atom of the
\* pattern matches itself; a run of whitespace matches one or more whitespace.
RECURSIVE MatchFrom(_, _, _, _)
MatchFrom(pat, p, s, i) ==
  IF p > Len(pat) THEN i
  ELSE IF IsWs(pat[p])
       THEN IF p < Len(pat) /\ IsWs(pat[p + 1]) THEN MatchFrom(pat, p + 1, s, i)
            ELSE IF i <= Len(s) /\ IsWs(s[i])
                 THEN LET stop == CHOOSE k \in (i + 1)..(Len(s) + 1) :
                                    /\ \A m \in i..(k - 1) : IsWs(s[m])
                                    /\ (k = Len(s) + 1 \/ ~IsWs(s[k]))
                      IN MatchFrom(pat, p + 1, s, stop)
                 ELSE -1
       ELSE IF i <= Len(s) /\ s[i] = pat[p] THEN MatchFrom(pat, p + 1, s, i + 1)
            ELSE -1

\* an exec that returns the last match instead of the first
LastMatch(pat, s, hits) ==
  IF hits = {} THEN <<-1, 0>>
  ELSE LET i == CHOOSE k \in hits : \A j \in hits : k >= j
       IN <<i - 1, MatchFrom(pat, 1, s, i) - i>>

\* new RegExp(pattern, "m").exec(s): <<index (0-based), length>> of the first
\* match, or <<-1, 0>> for null
FirstMatch(pat, s, hits) ==
  IF hits = {} THEN <<-1, 0>>
  ELSE LET i == CHOOSE k \in hits : \A j \in hits : k <= j
       IN <<i - 1, MatchFrom(pat, 1, s, i) - i>>

MatchesOf(pat, s) == {i \in 1..(Len(s) + 1) : MatchFrom(pat, 1, s, i) # -1}

RegexExec(selectedText, s) == FirstMatch(Trim(selectedText), s, MatchesOf(Trim(selectedText), s))

\* prefix + start + matched text + end + suffix
WrapAt(s, index, length, start, end) ==
  SubSeq(s, 1, index) \o start \o SubSeq(s, index + 1, index + length)
    \o end \o SubSeq(s, index + length + 1, Len(s))

\* the exact occurrence if there is one, else the whitespace-tolerant match,
\* else the text as it is
WrapFound(cleaned, exactIndex, match, selectedText, start, end) ==
  IF exactIndex # -1 THEN WrapAt(cleaned, exactIndex, Len(selectedText), start, end)
  ELSE IF match[1] = -1 THEN cleaned
  ELSE WrapAt(cleaned, match[1], match[2], start, end)

WrapFirstMatch(cleaned, selectedText, start, end) ==
  WrapFound(cleaned, indexOf(cleaned, selectedText), RegexExec(selectedText, cleaned),
            selectedText, start, end)

\* a wrap that leaves the temporary markers already in the content
wrapTempWithoutStripping(content, selectedText, tempId) ==
  IF content = <<>> \/ selectedText = <<>> THEN content
  ELSE WrapFirstMatch(content, selectedText, TempStartToken(tempId), <<TEMP_HL_END>>)

wrapFirstMatchWithTempHighlight(content, selectedText, tempId) ==
  IF content = <<>> \/ selectedText = <<>> THEN content
  ELSE WrapFirstMatch(stripAllTempHighlights(content), selectedText,
                      TempStartToken(tempId), <<TEMP_HL_END>>)

\* a removal that takes the start token and leaves the end token
removeTempStartOnly(content, tempId) ==
  IF content = <<>> THEN content
  ELSE replaceAll(content, TempStartToken(tempId), <<>>)

removeTempHighlightById(content, tempId) ==
  IF content = <<>> THEN content
  ELSE IF tempId = Null THEN stripAllTempHighlights(content)
  ELSE replaceAll(replaceAll(content, TempStartToken(tempId), <<>>), <<TEMP_HL_END>>, <<>>)

\* a conversion that rewrites the start token and drops the end token
convertDroppingEndToken(content, tempId, highlightId, branchNodeId) ==
  replaceAll(
    replaceAll(content, TempStartToken(tempId), BranchStartToken(highlightId, branchNodeId)),
    <<TEMP_HL_END>>, <<>>)

convertTempHighlightToBranchHighlight(content, tempId, highlightId, branchNodeId) ==
  IF content = <<>> \/ tempId = Null \/ highlightId = Null \/ branchNodeId = Null
  THEN content
  ELSE replaceAll(
         replaceAll(content, TempStartToken(tempId),
                    BranchStartToken(highlightId, branchNodeId)),
         <<TEMP_HL_END>>, <<BRANCH_HL_END>>)

wrapFirstMatchWithBranchHighlight(content, selectedText, highlightId, branchNodeId) ==
  IF content = <<>> \/ selectedText = <<>> THEN content
  ELSE WrapFirstMatch(content, selectedText,
                      BranchStartToken(highlightId, branchNodeId), <<BRANCH_HL_END>>)

\* number of occurrences of an atom in a text
RECURSIVE CountAtom(_, _)
CountAtom(s, atom) ==
  IF s = <<>> THEN 0
  ELSE (IF Head(s) = atom THEN 1 ELSE 0) + CountAtom(Tail(s), atom)

----------------------------------------------------------------------------
(* Marker parser (remarkBranchHighlights) on the value of one text node *)

\* value.indexOf(atom, from): 0-based, searching from the 0-based position from
RECURSIVE IndexFrom(_, _, _)
IndexFrom(value, atom, from) ==
  IF from >= Len(value) THEN -1
  ELSE IF value[from + 1] = atom THEN from
  ELSE IndexFrom(value, atom, from + 1)

\* value.indexOf("]]]", from): the characters "]]]" are the atom META_END or
\* the tail of an end token
RECURSIVE IndexOfMetaEnd(_, _)
IndexOfMetaEnd(value, from) ==
  IF from >= Len(value) THEN -1
  ELSE IF HasBracket(value[from + 1]) THEN from
  ELSE IndexOfMetaEnd(value, from + 1)

\* the characters of an atom that precede its "]]]"
BeforeBracket(atom) ==
  IF atom = TEMP_HL_END THEN <<"[[[/sel">>
  ELSE IF atom = BRANCH_HL_END THEN <<"[[[/hl">>
  ELSE <<>>

\* value.slice(startIdx + START.length, metaEndIdx)
MetaOf(value, startIdx, metaEndIdx) ==
  SubSeq(value, startIdx + 2, metaEndIdx) \o BeforeBracket(value[metaEndIdx + 1])

\* meta.split(":"): a start token inside meta ends with the character ":"
RECURSIVE SplitColon(_, _)
SplitColon(meta, piece) ==
  IF meta = <<>> THEN <<piece>>
  ELSE IF Head(meta) = ":" THEN <<piece>> \o SplitColon(Tail(meta), <<>>)
  ELSE IF Head(meta) = TEMP_HL_START
       THEN <<Append(piece, "[[[sel")>> \o SplitColon(Tail(meta), <<>>)
  ELSE IF Head(meta) = BRANCH_HL_START
       THEN <<Append(piece, "[[[hl")>> \o SplitColon(Tail(meta), <<>>)
  ELSE SplitColon(Tail(meta), Append(piece, Head(meta)))

TextSpan(value) ==
  [kind |-> "text", text |-> value, tempId |-> <<>>, highlightId |-> <<>>,
   branchNodeId |-> <<>>]

\* { type: "link", url: `temp-highlight:${tempId}`, children: [text inside] }
TempSpan(tempId, inside) ==
  [kind |-> "temporary", text |-> inside, tempId |-> tempId, highlightId |-> <<>>,
   branchNodeId |-> <<>>]

\* { type: "link", url: `branch-highlight:${highlightId}:${branchNodeId}`, ... }
BranchSpan(highlightId, branchNodeId, inside) ==
  [kind |-> "permanent", text |-> inside, tempId |-> <<>>, highlightId |-> highlightId,
   branchNodeId |-> branchNodeId]

\* if (before) nextChildren.push({ type: "text", value: before })
PushText(nextChildren, value) ==
  IF value = <<>> THEN nextChildren ELSE Append(nextChildren, TextSpan(value))

\* startIdx: the first start token of either family, or -1
StartIdx(branchIdx, tempIdx) ==
  IF branchIdx = -1 THEN tempIdx
  ELSE IF tempIdx = -1 THEN branchIdx
  ELSE IF branchIdx < tempIdx THEN branchIdx ELSE tempIdx

\* The while (true) loop and the push of what is left of value after it.
RECURSIVE ParseLoop(_, _)
ParseFound(value, nextChildren, startIdx, isBranch, metaEndIdx, endIdx) ==
  IF endIdx = -1 THEN PushText(nextChildren, value)
  ELSE IF isBranch
       THEN IF Len(SplitColon(MetaOf(value, startIdx, metaEndIdx), <<>>)) < 2
               \/ SplitColon(MetaOf(value, startIdx, metaEndIdx), <<>>)[1] = <<>>
               \/ SplitColon(MetaOf(value, startIdx, metaEndIdx), <<>>)[2] = <<>>
            THEN PushText(PushText(nextChildren, SubSeq(value, 1, startIdx)), value)
            ELSE ParseLoop(
                   SubSeq(value, endIdx + 2, Len(value)),
                   Append(PushText(nextChildren, SubSeq(value, 1, startIdx)),
                          BranchSpan(SplitColon(MetaOf(value, startIdx, metaEndIdx), <<>>)[1],
                                     SplitColon(MetaOf(value, startIdx, metaEndIdx), <<>>)[2],
                                     SubSeq(value, metaEndIdx + 2, endIdx))))
       ELSE IF MetaOf(value, startIdx, metaEndIdx) = <<>>
            THEN PushText(PushText(nextChildren, SubSeq(value, 1, startIdx)), value)
            ELSE ParseLoop(
                   SubSeq(value, endIdx + 2, Len(value)),
                   Append(PushText(nextChildren, SubSeq(value, 1, startIdx)),
                          TempSpan(MetaOf(value, startIdx, metaEndIdx),
                                   SubSeq(value, metaEndIdx + 2, endIdx))))

ParseStart(value, nextChildren, startIdx, isBranch, metaEndIdx) ==
  IF metaEndIdx = -1 THEN PushText(nextChildren, value)
  ELSE ParseFound(value, nextChildren, startIdx, isBranch, metaEndIdx,
                  IndexFrom(value, IF isBranch THEN BRANCH_HL_END ELSE TEMP_HL_END,
                            metaEndIdx + 1))

ParseAt(value, nextChildren, startIdx, branchIdx) ==
  IF startIdx = -1 THEN PushText(nextChildren, value)
  ELSE ParseStart(value, nextChildren, startIdx, startIdx = branchIdx,
                  IndexOfMetaEnd(value, startIdx))

ParseLoop(value, nextChildren) ==
  ParseAt(value, nextChildren,
          StartIdx(IndexFrom(value, BRANCH_HL_START, 0), IndexFrom(value, TEMP_HL_START, 0)),
          IndexFrom(value, BRANCH_HL_START, 0))

\* the children that replace one text child
remarkBranchHighlights(value) == ParseLoop(value, <<>>)

----------------------------------------------------------------------------
(* Tree store *)

\* a node without branchContext (the root)
NoBranchContext == [excerpt |-> <<>>, sourceNodeId |-> Null]

\* requestStatus and hasUnread are absent (undefined, falsy) on the root
createRootNode ==
  [id |-> RootId, parentId |-> Null, title |-> RootTitle, messages |-> <<>>,
   branchContext |-> NoBranchContext, requestStatus |-> "undefined",
   hasUnread |-> FALSE]

\* updatedAt holds Date.now(); the model keeps how many times it was written
\* after the tree was created
createTree(id, title) ==
  [id |-> id, title |-> title, nodesById |-> <<createRootNode>>,
   activeNodeId |-> RootId, updatedAt |-> 0]

\* obj[key] !== undefined, and the position of the key
Has(objs, id) == \E i \in 1..Len(objs) : objs[i].id = id
IndexOfId(objs, id) == CHOOSE i \in 1..Len(objs) : objs[i].id = id
Get(objs, id) == objs[IndexOfId(objs, id)]
Keys(objs) == {objs[i].id : i \in 1..Len(objs)}

\* { ...prev, [obj.id]: obj }: replaced in place, or appended when the key is new
Put(objs, obj) ==
  IF Has(objs, obj.id) THEN [objs EXCEPT ![IndexOfId(objs, obj.id)] = obj]
  ELSE Append(objs, obj)

\* delete next[id]
RECURSIVE Without(_, _)
Without(objs, id) ==
  IF objs = <<>> THEN objs
  ELSE IF Head(objs).id = id THEN Without(Tail(objs), id)
  ELSE <<Head(objs)>> \o Without(Tail(objs), id)

\* the auto-title closure without its "renamed in the meantime" check
ApplyTreeUpdaterUnguarded(tree, u) ==
  CASE u.op = "setActiveNode" -> [tree EXCEPT !.activeNodeId = u.nodeId]
    [] u.op = "rename" -> [tree EXCEPT !.title = u.title, !.updatedAt = @ + 1]
    [] u.op = "autoTitle" -> [tree EXCEPT !.title = u.title]

\* The closures passed to updateTree, one case per call site.
ApplyTreeUpdater(tree, u) ==
  CASE u.op = "setActiveNode" -> [tree EXCEPT !.activeNodeId = u.nodeId]
    [] u.op = "rename" -> [tree EXCEPT !.title = u.title, !.updatedAt = @ + 1]
    [] u.op = "autoTitle" ->
         IF ~IsPlaceholderTitle(tree.title) THEN tree
         ELSE [tree EXCEPT !.title = u.title]

updateTree(prev, treeId, u) ==
  IF ~Has(prev, treeId) THEN prev
  ELSE Put(prev, ApplyTreeUpdater(Get(prev, treeId), u))

\* messages.map((m, i) => i !== index || typeof m.content !== "string" ? m : {...m, content: f(m.content)})
MapContentAt(messages, index, u) ==
  IF index + 1 \notin 1..Len(messages) THEN messages
  ELSE [messages EXCEPT ![index + 1].content =
          CASE u.op = "removeTemp" -> removeTempHighlightById(@, u.tempId)
            [] u.op = "wrapTemp" ->
                 wrapFirstMatchWithTempHighlight(@, u.text, u.tempId)
            [] u.op = "convert" ->
                 convertTempHighlightToBranchHighlight(@, u.tempId, u.highlightId,
                                                       u.branchNodeId)
            [] u.op = "wrapBranch" ->
                 wrapFirstMatchWithBranchHighlight(@, u.text, u.highlightId,
                                                   u.branchNodeId)]

\* The closures passed to updateNodeMessages, one case per call site.
ApplyMessagesUpdater(messages, u) ==
  IF u.op = "append" THEN Append(messages, u.message)
  ELSE MapContentAt(messages, u.messageIndex, u)

\* The closures passed to updateNode, one case per call site.
\* the closures with a read that clears hasUnread and leaves requestStatus
ApplyNodeUpdaterKeepingStatus(node, u) ==
  CASE u.op = "title" -> [node EXCEPT !.title = u.title]
    [] u.op = "ready" -> [node EXCEPT !.requestStatus = "ready", !.hasUnread = TRUE]
    [] u.op = "idle" -> [node EXCEPT !.requestStatus = "idle"]
    [] u.op = "read" -> [node EXCEPT !.hasUnread = FALSE]

\* The closures passed to updateNode, one case per call site.
ApplyNodeUpdater(node, u) ==
  CASE u.op = "title" -> [node EXCEPT !.title = u.title]
    [] u.op = "ready" -> [node EXCEPT !.requestStatus = "ready", !.hasUnread = TRUE]
    [] u.op = "idle" -> [node EXCEPT !.requestStatus = "idle"]
    [] u.op = "read" ->
         IF ~node.hasUnread THEN node
         ELSE [node EXCEPT !.hasUnread = FALSE,
                           !.requestStatus =
                             IF @ = "ready" THEN "idle" ELSE @]

\* The closures passed to updateTreeNodes, one case per call site.
ApplyNodesUpdater(nodes, u) ==
  CASE u.op = "add" -> Put(nodes, u.node)
    [] u.op = "messages" ->
         IF ~Has(nodes, u.nodeId) THEN nodes
         ELSE Put(nodes, [Get(nodes, u.nodeId) EXCEPT
                            !.messages = ApplyMessagesUpdater(@, u.updater)])
    [] u.op = "node" ->
         IF ~Has(nodes, u.nodeId) THEN nodes
         ELSE Put(nodes, ApplyNodeUpdater(Get(nodes, u.nodeId), u.updater))

\* nextNodes === tree.nodesById: the closure handed back the object it was
\* given, which it does for a missing node and for a node with nothing unread
SameNodes(nodes, u) ==
  CASE u.op = "add" -> FALSE
    [] u.op = "messages" -> ~Has(nodes, u.nodeId)
    [] u.op = "node" ->
         \/ ~Has(nodes, u.nodeId)
         \/ u.updater.op = "read" /\ ~Get(nodes, u.nodeId).hasUnread

\* updateTreeNodes without the `if (!tree) return prev` guard: a missing tree
\* is written back as a new entry
updateTreeNodesUnguarded(prev, treeId, u) ==
  IF ~Has(prev, treeId)
  THEN Put(prev, [createTree(treeId, NewTreeTitle) EXCEPT
                    !.nodesById = ApplyNodesUpdater(@, u)])
  ELSE IF SameNodes(Get(prev, treeId).nodesById, u) THEN prev
  ELSE Put(prev, [Get(prev, treeId) EXCEPT !.nodesById = ApplyNodesUpdater(@, u),
                                           !.updatedAt = @ + 1])

updateTreeNodes(prev, treeId, u) ==
  IF ~Has(prev, treeId) THEN prev
  ELSE IF SameNodes(Get(prev, treeId).nodesById, u) THEN prev
  ELSE Put(prev, [Get(prev, treeId) EXCEPT !.nodesById = ApplyNodesUpdater(@, u),
                                           !.updatedAt = @ + 1])

updateNodeMessages(prev, treeId, nodeId, u) ==
  updateTreeNodes(prev, treeId, [op |-> "messages", nodeId |-> nodeId, updater |-> u])

updateNode(prev, treeId, nodeId, u) ==
  updateTreeNodes(prev, treeId, [op |-> "node", nodeId |-> nodeId, updater |-> u])

\* addNode with its default options: the new node is made the active node
addNodeActivating(prev, treeId, node) ==
  updateTree(updateTreeNodes(prev, treeId, [op |-> "add", node |-> node]), treeId,
             [op |-> "setActiveNode", nodeId |-> node.id])

\* addNode(..., { activate: false }), the only call of addNode
addNode(prev, treeId, node) ==
  updateTreeNodes(prev, treeId, [op |-> "add", node |-> node])

\* Object.values(treesById).sort((a, b) => a.createdAt - b.createdAt): creation
\* order is insertion order, and the sort is stable
treeList(trees) == trees

----------------------------------------------------------------------------
(* Component state and derived values *)

ClosedPopover ==
  [visible |-> FALSE, text |-> <<>>, draft |-> <<>>, messageIndex |-> Null,
   nodeId |-> Null, treeId |-> Null]

\* tempHighlight === null
NoTempHighlight ==
  [set |-> FALSE, nodeId |-> Null, messageIndex |-> Null, tempId |-> Null,
   treeId |-> Null]

\* const activeNodeId = activeTree?.activeNodeId || "root"
ActiveNodeIdOf(trees, treeId) ==
  IF Has(trees, treeId) THEN Get(trees, treeId).activeNodeId ELSE RootId

\* const nodesById = activeTree?.nodesById || {}
NodesOf(trees, treeId) ==
  IF Has(trees, treeId) THEN Get(trees, treeId).nodesById ELSE <<>>

\* The state one render sees: what a handler leaves behind and what the
\* effects of that commit close over.
Snapshot(trees, active, temp, pop, err) ==
  [trees |-> trees, active |-> active, temp |-> temp, pop |-> pop, err |-> err]

Current == Snapshot(treesById, activeTreeId, tempHighlight, selectionPopover, error)

Range(s) == {s[i] : i \in 1..Len(s)}

AllNodes(trees) == UNION {Range(tr.nodesById) : tr \in Range(trees)}

ContentsOf(nodes) ==
  UNION {{nd.messages[m].content : m \in 1..Len(nd.messages)} : nd \in Range(nodes)}

AllContents(trees) == UNION {ContentsOf(tr.nodesById) : tr \in Range(trees)}

\* crypto.randomUUID() returns an identifier that occurs nowhere in the state.
\* The model takes the least identifier of the pool that no tree, node, text,
\* request or UI record still mentions.
FollowsIn(content, before, atom) ==
  \E i \in 1..(Len(content) - 1) : content[i] \in before /\ content[i + 1] = atom

UsedTreeIds ==
  Keys(treesById) \cup {r.treeId : r \in inflight}
    \cup {tempHighlight.treeId, selectionPopover.treeId}

UsedNodeIds ==
  {nd.id : nd \in AllNodes(treesById)} \cup {r.nodeId : r \in inflight}
    \cup {tempHighlight.nodeId, selectionPopover.nodeId}
    \cup {n \in NodeIdPool :
            \E c \in AllContents(treesById) :
              FollowsIn(c, {BRANCH_HL_START, ":"}, ToString(n))}

UsedTempIds ==
  {tempHighlight.tempId}
    \cup {t \in TempIdPool :
            \E c \in AllContents(treesById) : FollowsIn(c, {TEMP_HL_START}, ToString(t))}

Least(S) == CHOOSE x \in S : \A y \in S : x <= y

FreshTreeIds == TreeIdPool \ UsedTreeIds
FreshNodeIds == NodeIdPool \ UsedNodeIds
FreshTempIds == TempIdPool \ UsedTempIds

----------------------------------------------------------------------------
(* Effects.  Each takes c, the snapshot of the render whose commit runs it,  *)
(* and s, the state as left by the effects that ran before it in the same   *)
(* commit (state updaters are applied in the order they were queued).       *)

\* updateNodeMessages(tempHighlight.treeId, tempHighlight.nodeId, ... removeTempHighlightById ...)
RemoveTempHighlight(trees, temp) ==
  IF ~temp.set THEN trees
  ELSE updateNodeMessages(trees, temp.treeId, temp.nodeId,
         [op |-> "removeTemp", messageIndex |-> temp.messageIndex,
          tempId |-> temp.tempId])

\* useEffect(..., [activeTreeId]): drop the selection state of the tree left
EffectTreeChanged(c, s) ==
  IF c.active = Null THEN s
  ELSE [s EXCEPT !.trees = RemoveTempHighlight(@, c.temp),
                 !.temp = NoTempHighlight,
                 !.pop = ClosedPopover,
                 !.err = NoError]

ApplyTempGuard(pop) ==
  /\ pop.visible
  /\ Trim(pop.text) # <<>>
  /\ pop.messageIndex # Null
  /\ pop.nodeId # Null
  /\ pop.treeId # Null

\* useEffect(..., [selectionPopover.visible, .text, .messageIndex, .nodeId, .treeId]):
\* apply the temporary highlight of the selection
EffectApplyTempHighlight(c, s, tempId) ==
  IF ~ApplyTempGuard(c.pop) THEN s
  ELSE [s EXCEPT
          !.trees =
            updateNodeMessages(RemoveTempHighlight(@, c.temp), c.pop.treeId,
              c.pop.nodeId,
              [op |-> "wrapTemp", messageIndex |-> c.pop.messageIndex,
               text |-> c.pop.text, tempId |-> tempId]),
          !.temp = [set |-> TRUE, nodeId |-> c.pop.nodeId,
                    messageIndex |-> c.pop.messageIndex, tempId |-> tempId,
                    treeId |-> c.pop.treeId]]

\* useEffect(..., [activeTreeId, activeNodeId]): the node now shown is read
EffectMarkRead(c, s) ==
  IF c.active = Null THEN s
  ELSE [s EXCEPT !.trees =
          updateNode(@, c.active, ActiveNodeIdOf(c.trees, c.active), [op |-> "read"])]

\* the dependency arrays
TreeDeps(x) == <<x.active>>
PopoverDeps(x) ==
  <<x.pop.visible, x.pop.text, x.pop.messageIndex, x.pop.nodeId, x.pop.treeId>>
ReadDeps(x) == <<x.active, ActiveNodeIdOf(x.trees, x.active)>>

\* Whether the commit of c after pre draws a new temporary id
DrawsTempId(pre, c) == PopoverDeps(pre) # PopoverDeps(c) /\ ApplyTempGuard(c.pop)

\* The effects of the commit that renders c after pre, in declaration order.
\* The state they leave is rendered again; in that second commit only the
\* dependencies of the apply-highlight effect can have changed (the popover
\* closed by EffectTreeChanged), and it returns at its first guard.
RunTreeChanged(pre, c, s) ==
  IF TreeDeps(pre) # TreeDeps(c) THEN EffectTreeChanged(c, s) ELSE s

RunApplyTempHighlight(pre, c, s, tempId) ==
  IF PopoverDeps(pre) # PopoverDeps(c) THEN EffectApplyTempHighlight(c, s, tempId) ELSE s

RunMarkRead(pre, c, s) ==
  IF ReadDeps(pre) # ReadDeps(c) THEN EffectMarkRead(c, s) ELSE s

Commit(pre, c, tempId) ==
  RunMarkRead(pre, c, RunApplyTempHighlight(pre, c, RunTreeChanged(pre, c, c), tempId))

\* The effects of the first commit after mounting: all of them run.
Mount(c) ==
  EffectMarkRead(c, EffectApplyTempHighlight(c, EffectTreeChanged(c, c), Null))

\* useEffect(..., [treesById, activeTreeId]): persist
\* JSON.stringify({ version: 1, treesById, activeTreeId })
Payload(trees, active) ==
  [text |-> "json", version |-> 1, treesByIdIs |-> "object", treesById |-> trees,
   activeTreeId |-> active]

\* The state s left by a commit is the next component state, and the persist
\* effect writes it to localStorage.
Rendered(s, loading, requests) ==
  /\ treesById' = s.trees
  /\ activeTreeId' = s.active
  /\ tempHighlight' = s.temp
  /\ selectionPopover' = s.pop
  /\ error' = s.err
  /\ storage' = Payload(s.trees, s.active)
  /\ isLoading' = loading
  /\ inflight' = requests
  /\ UNCHANGED <<codecVars, treeVars>>

\* crypto.randomUUID() in the apply-highlight effect
NewTempId(draws) == IF draws THEN Least(FreshTempIds) ELSE Null

\* A handler or continuation that leaves c behind, followed by its commit;
\* tags is what the step adds to the history of completions.
Observing(c, loading, requests, tags) ==
  /\ seen' = seen \cup tags
  /\ DrawsTempId(Current, c) => FreshTempIds # {}
  /\ Rendered(Commit(Current, c, NewTempId(DrawsTempId(Current, c))), loading, requests)

Observe(c, loading, requests, tags) ==
  /\ steps < MaxSteps
  /\ steps' = steps + 1
  /\ Observing(c, loading, requests, tags)

Step(c, loading, requests) == Observe(c, loading, requests, {})

----------------------------------------------------------------------------
(* Start-up *)

\* What localStorage holds under STORAGE_KEY.  text: nothing ("absent"), text
\* that JSON.parse rejects ("unparsable"), or JSON ("json"); treesByIdIs: the
\* property is missing, a string, or an object, and then treesById holds its
\* entries, every entry under its key in "id".  NoPayload: nothing is stored.
NoPayload ==
  [text |-> "absent", version |-> 0, treesByIdIs |-> "missing", treesById |-> <<>>,
   activeTreeId |-> Null]

\* an entry of treesById whose value is null
NullEntry(key) == [id |-> key, isNull |-> TRUE]

\* parsed.treesById[key] is truthy
Truthy(entry) == "isNull" \notin DOMAIN entry

NotLoaded == [ok |-> FALSE, treesById |-> <<>>, activeTreeId |-> Null]

\* null, or { treesById, activeTreeId }
loadTreesFromStorage(payload) ==
  IF payload.text # "json" THEN NotLoaded
  ELSE IF payload.version # 1 THEN NotLoaded
  ELSE IF payload.treesByIdIs # "object" THEN NotLoaded
  ELSE IF Len(payload.treesById) = 0 THEN NotLoaded
  ELSE [ok |-> TRUE, treesById |-> payload.treesById,
        activeTreeId |->
          IF /\ payload.activeTreeId # Null
             /\ Has(payload.treesById, payload.activeTreeId)
             /\ Truthy(Get(payload.treesById, payload.activeTreeId))
          THEN payload.activeTreeId
          ELSE payload.treesById[1].id]

createInitialTreeState(payload, freshId) ==
  LET loaded == loadTreesFromStorage(payload)
  IN IF loaded.ok THEN [treesById |-> loaded.treesById, activeTreeId |-> loaded.activeTreeId]
     ELSE [treesById |-> <<createTree(freshId, NewTreeTitle)>>, activeTreeId |-> freshId]

\* The App component mounted over a stored payload: useState initial values,
\* then the effects of the first commit.
Mounted(payload, freshId) ==
  LET initial == createInitialTreeState(payload, freshId)
  IN Mount(Snapshot(initial.treesById, initial.activeTreeId, NoTempHighlight,
                    ClosedPopover, NoError))

FirstRender(s) ==
  /\ treesById = s.trees
  /\ activeTreeId = s.active
  /\ tempHighlight = s.temp
  /\ selectionPopover = s.pop
  /\ error = s.err
  /\ storage = Payload(s.trees, s.active)


\* The page is loaded again: every in-flight continuation is gone with the old
\* page, and the component state starts from what the persist effect stored.
Reload ==
  /\ steps < MaxSteps
  /\ steps' = steps + 1
  /\ seen' = seen
  /\ Rendered(Mounted(storage, Least(TreeIdPool)), FALSE, {})

----------------------------------------------------------------------------
(* Tree list handlers *)

createNewTree ==
  /\ FreshTreeIds # {}
  /\ LET tree == createTree(Least(FreshTreeIds), NewTreeTitle)
     IN Step(Snapshot(Put(treesById, tree), tree.id, tempHighlight, selectionPopover,
                      error),
             isLoading, inflight)

\* treeList.filter((t) => t.id !== treeId)
Remaining(treeId) == Without(treeList(treesById), treeId)

\* deleteTree without the replacement of the last tree
deleteTreeWithoutReplacement(treeId) ==
  /\ Has(treesById, treeId)
  /\ Step(Snapshot(Without(treesById, treeId),
                   IF activeTreeId = treeId /\ Remaining(treeId) # <<>>
                   THEN Remaining(treeId)[1].id ELSE activeTreeId,
                   tempHighlight, selectionPopover, error),
          isLoading, inflight)

\* the user confirms the window.confirm dialog
deleteTree(treeId) ==
  /\ Has(treesById, treeId)
  /\ IF Remaining(treeId) = <<>>
     THEN /\ FreshTreeIds # {}
          /\ LET fresh == createTree(Least(FreshTreeIds), NewTreeTitle)
             IN Step(Snapshot(<<fresh>>, fresh.id, tempHighlight, selectionPopover,
                              error),
                     isLoading, inflight)
     ELSE Step(Snapshot(Without(treesById, treeId),
                        IF activeTreeId = treeId THEN Remaining(treeId)[1].id
                        ELSE activeTreeId,
                        tempHighlight, selectionPopover, error),
               isLoading, inflight)

\* onClick={() => setActiveTreeId(tree.id)}
switchActiveTree(treeId) ==
  /\ Has(treesById, treeId)
  /\ Step(Snapshot(treesById, treeId, tempHighlight, selectionPopover, error),
          isLoading, inflight)

\* the request records of a tree's title request remember a later rename (history)
NoteRename(requests, treeId) ==
  {IF r.kind = "treeTitle" /\ r.treeId = treeId THEN [r EXCEPT !.renamed = TRUE] ELSE r :
     r \in requests}

\* the Save button of the rename menu
renameTree(treeId, title) ==
  /\ Has(treesById, treeId)
  /\ Trim(title) # <<>>
  /\ Step(Snapshot(updateTree(treesById, treeId, [op |-> "rename", title |-> Trim(title)]),
                   activeTreeId, tempHighlight, selectionPopover, error),
          isLoading, NoteRename(inflight, treeId))

setActiveNodeId(nodeId) ==
  /\ Has(NodesOf(treesById, activeTreeId), nodeId)
  /\ Step(Snapshot(updateTree(treesById, activeTreeId,
                              [op |-> "setActiveNode", nodeId |-> nodeId]),
                   activeTreeId, tempHighlight, selectionPopover, error),
          isLoading, inflight)

----------------------------------------------------------------------------
(* Selection handlers *)

\* What the user can select: text shown in the chat area, which is rendered
\* only when the active node has messages.  messageIndex is the message the
\* selection starts in, or null when it starts outside every message element.
SelectableIndexes ==
  LET node == Get(NodesOf(treesById, activeTreeId), ActiveNodeIdOf(treesById, activeTreeId))
  IN IF Len(node.messages) = 0 THEN {}
     ELSE (0..(Len(node.messages) - 1)) \cup {Null}

\* handleSelection with the shift key held, and the Shift keydown handler
openSelectionPopover(text, messageIndex) ==
  /\ messageIndex \in SelectableIndexes
  /\ Trim(text) # <<>>
  /\ Step(Snapshot(treesById, activeTreeId, tempHighlight,
                   [visible |-> TRUE, text |-> Trim(text), draft |-> <<>>,
                    messageIndex |-> messageIndex,
                    nodeId |-> ActiveNodeIdOf(treesById, activeTreeId),
                    treeId |-> activeTreeId],
                   error),
          isLoading, inflight)

\* handleSelection without a selection or without the shift key
handleSelection ==
  /\ selectionPopover.visible
  /\ Step(Snapshot(treesById, activeTreeId, tempHighlight, ClosedPopover, error),
          isLoading, inflight)

\* click outside the popover, the Escape key, the Cancel button
cancelSelection ==
  /\ selectionPopover.visible \/ tempHighlight.set
  /\ Step(Snapshot(RemoveTempHighlight(treesById, tempHighlight), activeTreeId,
                   NoTempHighlight, ClosedPopover, error),
          isLoading, inflight)

\* onChange of the popover's textarea
setBranchDraft(draft) ==
  /\ selectionPopover.visible
  /\ Step(Snapshot(treesById, activeTreeId, tempHighlight,
                   [selectionPopover EXCEPT !.draft = draft], error),
          isLoading, inflight)

----------------------------------------------------------------------------
(* Requests to the completion service *)

Request(kind, treeId, nodeId) ==
  [kind |-> kind, treeId |-> treeId, nodeId |-> nodeId, renamed |-> FALSE]

\* what the completion of r adds to the history: a success after the tree was
\* deleted, a generated tree title arriving after a rename, a failed title, a
\* composer reply arriving when another node or tree is the active one, a
\* composer request completing after its tree was deleted
Observed(r, ok) ==
  (IF ok /\ ~Has(treesById, r.treeId) THEN {"staleSuccess"} ELSE {})
    \cup (IF r.kind = "sendReply" /\ ~Has(treesById, r.treeId)
          THEN {"sendAfterDelete"} ELSE {})
    \cup (IF /\ ok /\ r.kind = "sendReply" /\ Has(treesById, r.treeId)
              /\ <<r.treeId, r.nodeId>>
                   # <<activeTreeId, ActiveNodeIdOf(treesById, activeTreeId)>>
          THEN {"replyAway"} ELSE {})
    \cup (IF ok /\ r.kind = "treeTitle" /\ r.renamed /\ Has(treesById, r.treeId)
          THEN {"titleAfterRename"} ELSE {})
    \cup (IF ~ok /\ r.kind \in {"branchTitle", "treeTitle"} THEN {"titleFailed"} ELSE {})

\* data.choices?.[0]?.message?.content?.trim() ?? ""
sendToOpenAI(content) == Trim(content)

Message(role, content) == [role |-> role, content |-> content]

\* { role: "assistant", content: reply || "No response returned." }
AssistantMessage(reply) == Message("assistant", IF reply = <<>> THEN NoResponse ELSE reply)

----------------------------------------------------------------------------
(* handleBranchSend *)

\* a branch node hung under itself instead of under the source node
BranchNodeUnderItself(newNodeId, sourceNodeId, userMessage, branchExcerpt) ==
  [id |-> newNodeId, parentId |-> newNodeId, title |-> fallbackTitle,
   messages |-> <<Message("user", userMessage)>>,
   branchContext |-> [excerpt |-> branchExcerpt, sourceNodeId |-> sourceNodeId],
   requestStatus |-> "pending", hasUnread |-> FALSE]

\* the node handed to addNode: { id, parentId, title, messages, ...extra }
BranchNode(newNodeId, sourceNodeId, userMessage, branchExcerpt) ==
  [id |-> newNodeId, parentId |-> sourceNodeId, title |-> fallbackTitle,
   messages |-> <<Message("user", userMessage)>>,
   branchContext |-> [excerpt |-> branchExcerpt, sourceNodeId |-> sourceNodeId],
   requestStatus |-> "pending", hasUnread |-> FALSE]

\* whether the live temporary highlight belongs to the source node
TempBelongsTo(temp, treeId, sourceNodeId) ==
  temp.set /\ temp.nodeId = sourceNodeId /\ temp.treeId = treeId

\* the marker written into the source message
BranchMarker(trees, temp, pop, treeId, sourceNodeId, highlightId, newNodeId) ==
  IF TempBelongsTo(temp, treeId, sourceNodeId)
  THEN updateNodeMessages(trees, treeId, sourceNodeId,
         [op |-> "convert", messageIndex |-> temp.messageIndex, tempId |-> temp.tempId,
          highlightId |-> highlightId, branchNodeId |-> newNodeId])
  ELSE IF pop.messageIndex # Null
  THEN updateNodeMessages(trees, treeId, sourceNodeId,
         [op |-> "wrapBranch", messageIndex |-> pop.messageIndex, text |-> pop.text,
          highlightId |-> highlightId, branchNodeId |-> newNodeId])
  ELSE trees

\* Up to the first await.  highlightId is a second random identifier; no
\* marker carries the number of an unused node id, so the model reuses it.
handleBranchSend ==
  /\ Trim(selectionPopover.text) # <<>>
  /\ Trim(selectionPopover.draft) # <<>>
  /\ FreshNodeIds # {}
  /\ LET treeId == IF selectionPopover.treeId # Null THEN selectionPopover.treeId
                   ELSE activeTreeId
         sourceNodeId == IF selectionPopover.nodeId # Null THEN selectionPopover.nodeId
                         ELSE ActiveNodeIdOf(treesById, activeTreeId)
         userMessage == Trim(selectionPopover.draft)
         branchExcerpt == Trim(selectionPopover.text)
         newNodeId == Least(FreshNodeIds)
         highlightId == newNodeId
         added == addNode(treesById, treeId,
                          BranchNode(newNodeId, sourceNodeId, userMessage, branchExcerpt))
     IN Step(Snapshot(BranchMarker(added, tempHighlight, selectionPopover, treeId,
                                   sourceNodeId, highlightId, newNodeId),
                      activeTreeId,
                      IF TempBelongsTo(tempHighlight, treeId, sourceNodeId)
                      THEN NoTempHighlight ELSE tempHighlight,
                      ClosedPopover, NoError),
             isLoading,
             inflight \cup {Request("branchReply", treeId, newNodeId),
                            Request("branchTitle", treeId, newNodeId)})

\* after `await replyPromise`: the assistant message, then ready and unread
BranchReplyResolved(trees, r, reply) ==
  updateNode(
    updateNodeMessages(trees, r.treeId, r.nodeId,
                       [op |-> "append", message |-> AssistantMessage(reply)]),
    r.treeId, r.nodeId, [op |-> "ready"])

\* a catch block that marks the node ready
BranchReplyRejectedAsReady(trees, r) ==
  updateNode(trees, r.treeId, r.nodeId, [op |-> "ready"])

\* the catch block
BranchReplyRejected(trees, r) == updateNode(trees, r.treeId, r.nodeId, [op |-> "idle"])

\* a title continuation that also resets requestStatus
BranchTitleResolvedResettingStatus(trees, r, title) ==
  updateNode(
    updateNode(trees, r.treeId, r.nodeId,
               [op |-> "title", title |-> normalizeGeneratedTitle(title, fallbackTitle)]),
    r.treeId, r.nodeId, [op |-> "idle"])

\* titlePromise.then
BranchTitleResolved(trees, r, title) ==
  updateNode(trees, r.treeId, r.nodeId,
             [op |-> "title", title |-> normalizeGeneratedTitle(title, fallbackTitle)])

branchReplySucceeds(r, data) ==
  /\ r \in inflight
  /\ r.kind = "branchReply"
  /\ Observe(Snapshot(BranchReplyResolved(treesById, r, sendToOpenAI(data)), activeTreeId,
                   tempHighlight, selectionPopover, error),
          isLoading, inflight \ {r}, Observed(r, TRUE))

\* a catch block that does not call setError
branchReplyFailsSilently(r) ==
  /\ r \in inflight
  /\ r.kind = "branchReply"
  /\ Observe(Snapshot(BranchReplyRejected(treesById, r), activeTreeId, tempHighlight,
                   selectionPopover, error),
          isLoading, inflight \ {r}, Observed(r, FALSE))

branchReplyFails(r) ==
  /\ r \in inflight
  /\ r.kind = "branchReply"
  /\ Observe(Snapshot(BranchReplyRejected(treesById, r), activeTreeId, tempHighlight,
                   selectionPopover, FailedMessage),
          isLoading, inflight \ {r}, Observed(r, FALSE))

branchTitleSucceeds(r, data) ==
  /\ r \in inflight
  /\ r.kind = "branchTitle"
  /\ Observe(Snapshot(BranchTitleResolved(treesById, r, sendToOpenAI(data)), activeTreeId,
                   tempHighlight, selectionPopover, error),
          isLoading, inflight \ {r}, Observed(r, TRUE))

\* a title failure handled like a reply failure
branchTitleFailsLoudly(r) ==
  /\ r \in inflight
  /\ r.kind = "branchTitle"
  /\ Observe(Snapshot(treesById, activeTreeId, tempHighlight, selectionPopover,
                      FailedMessage),
             isLoading, inflight \ {r}, Observed(r, FALSE))

\* .catch(() => { })
branchTitleFails(r) ==
  /\ r \in inflight
  /\ r.kind = "branchTitle"
  /\ Observe(Current, isLoading, inflight \ {r}, Observed(r, FALSE))

----------------------------------------------------------------------------
(* handleSend *)

\* Up to the first await.
handleSend(content) ==
  /\ Trim(content) # <<>>
  /\ ~isLoading
  /\ activeTreeId # Null
  /\ LET trimmed == Trim(content)
         activeNodeId == ActiveNodeIdOf(treesById, activeTreeId)
         nodeSnapshot == Get(NodesOf(treesById, activeTreeId), activeNodeId)
         treeSnapshot == Get(treesById, activeTreeId)
         isFirstRootTurn == activeNodeId = RootId /\ Len(nodeSnapshot.messages) = 0
         shouldAutoTitle == isFirstRootTurn /\ IsPlaceholderTitle(treeSnapshot.title)
     IN /\ Len(nodeSnapshot.messages) + 2 <= MaxMessages
        /\ Step(Snapshot(updateNodeMessages(treesById, activeTreeId, activeNodeId,
                           [op |-> "append", message |-> Message("user", trimmed)]),
                         activeTreeId, tempHighlight, selectionPopover, NoError),
                TRUE,
                inflight \cup {Request("sendReply", activeTreeId, activeNodeId)}
                  \cup (IF shouldAutoTitle
                        THEN {Request("treeTitle", activeTreeId, RootId)} ELSE {}))

\* the reply appended to whatever node is active when it arrives
SendReplyToActive(trees, r, reply) ==
  updateNodeMessages(trees, activeTreeId, ActiveNodeIdOf(trees, activeTreeId),
                     [op |-> "append", message |-> AssistantMessage(reply)])

\* after `await replyPromise`, with the activeTreeId and activeNodeId of the
\* render that ran handleSend
SendReplyResolved(trees, r, reply) ==
  updateNodeMessages(trees, r.treeId, r.nodeId,
                     [op |-> "append", message |-> AssistantMessage(reply)])

\* requestTreeTitle(...).then
TreeTitleResolved(trees, r, title) ==
  updateTree(trees, r.treeId,
             [op |-> "autoTitle", title |-> normalizeGeneratedTitle(title, NewTreeTitle)])

sendReplySucceeds(r, data) ==
  /\ r \in inflight
  /\ r.kind = "sendReply"
  /\ Observe(Snapshot(SendReplyResolved(treesById, r, sendToOpenAI(data)), activeTreeId,
                   tempHighlight, selectionPopover, error),
          FALSE, inflight \ {r}, Observed(r, TRUE))

\* a failure path without the finally block
sendReplyFailsStillLoading(r) ==
  /\ r \in inflight
  /\ r.kind = "sendReply"
  /\ Observe(Snapshot(treesById, activeTreeId, tempHighlight, selectionPopover,
                   FailedMessage),
          isLoading, inflight \ {r}, Observed(r, FALSE))

\* the catch and finally blocks
sendReplyFails(r) ==
  /\ r \in inflight
  /\ r.kind = "sendReply"
  /\ Observe(Snapshot(treesById, activeTreeId, tempHighlight, selectionPopover,
                   FailedMessage),
          FALSE, inflight \ {r}, Observed(r, FALSE))

treeTitleSucceeds(r, data) ==
  /\ r \in inflight
  /\ r.kind = "treeTitle"
  /\ Observe(Snapshot(TreeTitleResolved(treesById, r, sendToOpenAI(data)), activeTreeId,
                   tempHighlight, selectionPopover, error),
          isLoading, inflight \ {r}, Observed(r, TRUE))

treeTitleFails(r) ==
  /\ r \in inflight
  /\ r.kind = "treeTitle"
  /\ Observe(Current, isLoading, inflight \ {r}, Observed(r, FALSE))

----------------------------------------------------------------------------
(* Context builder and graph layout: derived views of the nodes of one tree *)

\* the children of a parent, the node added last first
RECURSIVE ChildIdsNewestFirst(_, _)
ChildIdsNewestFirst(nodes, parent) ==
  IF nodes = <<>> THEN <<>>
  ELSE ChildIdsNewestFirst(Tail(nodes), parent)
         \o (IF Head(nodes).parentId = parent THEN <<Head(nodes).id>> ELSE <<>>)

\* the ids of the nodes whose parentId is parent, in the order of Object.values
RECURSIVE ChildIds(_, _)
ChildIds(nodes, parent) ==
  IF nodes = <<>> THEN <<>>
  ELSE (IF Head(nodes).parentId = parent THEN <<Head(nodes).id>> ELSE <<>>)
         \o ChildIds(Tail(nodes), parent)

\* map[parent] for every parent some node names; the root is filed under
\* "root-parent", here Null
buildChildrenMap(nodes) ==
  [parent \in {nodes[i].parentId : i \in 1..Len(nodes)} |-> ChildIds(nodes, parent)]

\* childrenMap[nodeId] || []
ChildrenIn(childrenMap, nodeId) ==
  IF nodeId \in DOMAIN childrenMap THEN childrenMap[nodeId] ELSE <<>>

\* an ellipsis character
Ellipsis == "..."

\* text.replace(/\s+/g, " ").trim(), cut to maxChars - 1 characters and an
\* ellipsis when it is longer than maxChars
truncateForContext(text, maxChars) ==
  IF Len(Trim(CollapseWs(text))) <= maxChars THEN Trim(CollapseWs(text))
  ELSE Append(SubSeq(Trim(CollapseWs(text)), 1, IF maxChars - 1 > 0 THEN maxChars - 1 ELSE 0),
              Ellipsis)

ExcerptChars == 1200
SnippetChars == 220
TailSize == 4

\* the while loop of getNodePathToRoot: path holds the ids from nodeId upward
RECURSIVE PathUp(_, _, _)
PathUp(nodes, currentId, path) ==
  IF currentId = Null \/ ~Has(nodes, currentId)
     \/ \E i \in 1..Len(path) : path[i] = currentId
  THEN path
  ELSE PathUp(nodes, Get(nodes, currentId).parentId, Append(path, currentId))

Reversed(s) == [i \in 1..Len(s) |-> s[Len(s) + 1 - i]]

getNodePathToRoot(nodeId, nodes) == Reversed(PathUp(nodes, nodeId, <<>>))

\* path.map(...).filter(Boolean): the node itself is ".", unless it is the root
RECURSIVE Crumbs(_, _, _)
Crumbs(nodes, path, index) ==
  IF index > Len(path) THEN <<>>
  ELSE (IF index = Len(path) /\ path[index] # RootId THEN <<<<".">>>>
        ELSE IF Get(nodes, path[index]).title # <<>> THEN <<Get(nodes, path[index]).title>>
        ELSE IF path[index] = RootId THEN <<RootTitle>>
        ELSE <<>>)
         \o Crumbs(nodes, path, index + 1)

\* crumbs.join(" > ")
RECURSIVE JoinCrumbs(_)
JoinCrumbs(crumbs) ==
  IF crumbs = <<>> THEN <<>>
  ELSE IF Len(crumbs) = 1 THEN crumbs[1]
  ELSE crumbs[1] \o <<" > ">> \o JoinCrumbs(Tail(crumbs))

\* one entry of lines; the context is lines.join("\n\n")
Line(kind, text, title, snippets) ==
  [kind |-> kind, text |-> text, title |-> title, snippets |-> snippets]

\* every message of a node instead of its last four
AllMessages(messages) == messages

\* the first messages of a node instead of its last
FirstMessages(messages) ==
  SubSeq(messages, 1, IF Len(messages) > TailSize THEN TailSize ELSE Len(messages))

\* messages.slice(-4)
LastMessages(messages) ==
  SubSeq(messages, IF Len(messages) > TailSize THEN Len(messages) - TailSize + 1 ELSE 1,
         Len(messages))

\* `${m.role}: ${truncateForContext(m.content ?? "", 220)}` for every m of tail
Snippets(tail) ==
  [i \in 1..Len(tail) |->
     [role |-> tail[i].role, content |-> truncateForContext(tail[i].content, SnippetChars)]]

\* ancestorIds.forEach: one line per ancestor that has messages
RECURSIVE AncestorLines(_, _)
AncestorLines(nodes, ancestorIds) ==
  IF ancestorIds = <<>> THEN <<>>
  ELSE (IF ~Has(nodes, Head(ancestorIds)) THEN <<>>
        ELSE IF Get(nodes, Head(ancestorIds)).messages = <<>> THEN <<>>
        ELSE <<Line("section", <<>>, Get(nodes, Head(ancestorIds)).title,
                    Snippets(LastMessages(Get(nodes, Head(ancestorIds)).messages)))>>)
         \o AncestorLines(nodes, Tail(ancestorIds))

ContextLines(nodes, node, path) ==
  <<Line("header", <<>>, <<>>, <<>>)>>
    \o (IF JoinCrumbs(Crumbs(nodes, path, 1)) # <<>>
        THEN <<Line("path", JoinCrumbs(Crumbs(nodes, path, 1)), <<>>, <<>>)>> ELSE <<>>)
    \o (IF node.branchContext.excerpt # <<>>
        THEN <<Line("excerpt", truncateForContext(node.branchContext.excerpt, ExcerptChars),
                    <<>>, <<>>)>>
        ELSE <<>>)
    \o (IF Len(path) > 1
        THEN <<Line("ancestors", <<>>, <<>>, <<>>)>>
               \o AncestorLines(nodes, SubSeq(path, 1, Len(path) - 1))
        ELSE <<>>)

\* the lines of the hidden context of a node; no line when the node is missing
buildHiddenContextForNode(nodeId, nodes) ==
  IF ~Has(nodes, nodeId) THEN <<>>
  ELSE ContextLines(nodes, Get(nodes, nodeId), getNodePathToRoot(nodeId, nodes))

\* x is kept in units of 1 / XScale pixel, so that the midpoints are exact
XScale == 4
XStart == 80
XStep == 220
YStep == 160
YTop == 70
XMargin == 120
MinWidth == 240
YMargin == 120

\* let xCursor = 80; let maxDepth = 0; const positions = {}; const edges = []
EmptyLayout ==
  [positions |-> <<>>, edges |-> <<>>, xCursor |-> XStart * XScale, maxDepth |-> 0]

\* positions[nodeId] = { x, y: depth * 160 + 70 }
Placed(layout, nodeId, x, depth) ==
  [layout EXCEPT !.positions =
     (nodeId :> [x |-> x, y |-> depth * YStep + YTop])
       @@ [id \in DOMAIN @ \ {nodeId} |-> @[id]]]

\* Math.min(...childXs), Math.max(...childXs)
MinX(positions, children) ==
  CHOOSE x \in {positions[children[i]].x : i \in 1..Len(children)} :
    \A i \in 1..Len(children) : x <= positions[children[i]].x
MaxX(positions, children) ==
  CHOOSE x \in {positions[children[i]].x : i \in 1..Len(children)} :
    \A i \in 1..Len(children) : x >= positions[children[i]].x

\* a parent put above its first child
XOfFirstChild(positions, children) == positions[children[1]].x

\* (Math.min(...childXs) + Math.max(...childXs)) / 2
MidX(positions, children) ==
  (MinX(positions, children) + MaxX(positions, children)) \div 2

\* walk(nodeId, depth) and the forEach over the children of a node
RECURSIVE walk(_, _, _, _)
RECURSIVE WalkChildren(_, _, _, _, _)
WalkChildren(childrenMap, nodeId, children, depth, layout) ==
  IF children = <<>> THEN layout
  ELSE WalkChildren(childrenMap, nodeId, Tail(children), depth,
         walk(childrenMap, Head(children), depth + 1,
              [layout EXCEPT !.edges = Append(@, [from |-> nodeId, to |-> Head(children)])]))

PlaceLeaf(layout, nodeId, depth) ==
  [Placed(layout, nodeId, layout.xCursor, depth) EXCEPT !.xCursor = @ + XStep * XScale]

PlaceParent(layout, nodeId, children, depth) ==
  Placed(layout, nodeId, MidX(layout.positions, children), depth)

WalkFrom(childrenMap, nodeId, children, depth, layout) ==
  IF children = <<>> THEN PlaceLeaf(layout, nodeId, depth)
  ELSE PlaceParent(WalkChildren(childrenMap, nodeId, children, depth, layout),
                   nodeId, children, depth)

walk(childrenMap, nodeId, depth, layout) ==
  WalkFrom(childrenMap, nodeId, ChildrenIn(childrenMap, nodeId), depth,
           [layout EXCEPT !.maxDepth = IF depth > @ THEN depth ELSE @])

\* { positions, edges, width, height } of the walk from the root
LayoutOf(walked) ==
  [positions |-> walked.positions,
   edges |-> walked.edges,
   width |-> IF walked.xCursor + XMargin * XScale > MinWidth * XScale
             THEN walked.xCursor + XMargin * XScale ELSE MinWidth * XScale,
   height |-> (walked.maxDepth + 1) * YStep + YMargin]

graphLayoutOf(childrenMap) == LayoutOf(walk(childrenMap, RootId, 0, EmptyLayout))

----------------------------------------------------------------------------
(* Specification *)

\* localStorage as the page finds it: empty on a first visit, or as the persist
\* effect of an earlier visit left it.  The earlier visit modelled is the
\* shortest one that leaves a conversation: one message sent on the root and
\* answered, the tree title not generated.
SeedTree ==
  [createTree(Least(TreeIdPool), NewTreeTitle) EXCEPT
     !.nodesById[1].messages =
        <<Message("user", <<"a">>), AssistantMessage(<<"a", " ", "b">>)>>,
     !.updatedAt = @ + 1 + 1]

StoredSessions == {NoPayload, Payload(<<SeedTree>>, Least(TreeIdPool))}

\* no codec call followed on its own
NoCall ==
  [op |-> "none", input |-> <<>>, previous |-> <<>>, selectedText |-> <<>>,
   tempId |-> Null, highlightId |-> Null, branchNodeId |-> Null, n |-> 0]

CodecIdle ==
  /\ markedContent = <<>>
  /\ call = NoCall
  /\ spans = <<>>

NoLayout == [positions |-> <<>>, edges |-> <<>>, width |-> 0, height |-> 0]

\* No tree is open.
TreeIdle ==
  /\ openNodes = <<>>
  /\ openNodeId = Null
  /\ graphLayout = NoLayout
  /\ hiddenContext = <<>>

Init ==
  /\ \E payload \in StoredSessions : FirstRender(Mounted(payload, Least(TreeIdPool)))
  /\ isLoading = FALSE
  /\ inflight = {}
  /\ steps = 0
  /\ seen = {}
  /\ CodecIdle
  /\ TreeIdle

Next ==
  \/ createNewTree
  \/ \E treeId \in TreeIdPool : deleteTree(treeId)
  \/ \E treeId \in TreeIdPool : switchActiveTree(treeId)
  \/ \E treeId \in TreeIdPool, title \in RenameTitles : renameTree(treeId, title)
  \/ \E nodeId \in NodeIdPool \cup {RootId} : setActiveNodeId(nodeId)
  \/ \E text \in SelectionTexts, messageIndex \in (0..(MaxMessages - 1)) \cup {Null} :
       openSelectionPopover(text, messageIndex)
  \/ handleSelection
  \/ cancelSelection
  \/ \E draft \in BranchDrafts : setBranchDraft(draft)
  \/ handleBranchSend
  \/ \E r \in inflight, data \in Replies : branchReplySucceeds(r, data)
  \/ \E r \in inflight : branchReplyFails(r)
  \/ \E r \in inflight, data \in RawTitles : branchTitleSucceeds(r, data)
  \/ \E r \in inflight : branchTitleFails(r)
  \/ \E content \in SendContents : handleSend(content)
  \/ \E r \in inflight, data \in Replies : sendReplySucceeds(r, data)
  \/ \E r \in inflight : sendReplyFails(r)
  \/ \E r \in inflight, data \in RawTitles : treeTitleSucceeds(r, data)
  \/ \E r \in inflight : treeTitleFails(r)
  \/ Reload

Spec == Init /\ [][Next]_vars

----------------------------------------------------------------------------
(* The application with a completion service that answers: MaxSteps bounds   *)
(* what the user does, and a reply request that is still in flight when the  *)
(* steps are used up completes all the same, with a reply or with a failure. *)

lateBranchReplySucceeds(r, data) ==
  /\ steps = MaxSteps
  /\ r \in inflight
  /\ r.kind = "branchReply"
  /\ UNCHANGED steps
  /\ Observing(Snapshot(BranchReplyResolved(treesById, r, sendToOpenAI(data)), activeTreeId,
                        tempHighlight, selectionPopover, error),
               isLoading, inflight \ {r}, Observed(r, TRUE))

lateBranchReplyFails(r) ==
  /\ steps = MaxSteps
  /\ r \in inflight
  /\ r.kind = "branchReply"
  /\ UNCHANGED steps
  /\ Observing(Snapshot(BranchReplyRejected(treesById, r), activeTreeId, tempHighlight,
                        selectionPopover, FailedMessage),
               isLoading, inflight \ {r}, Observed(r, FALSE))

\* the reply request of the branch node nodeId of tree treeId completes
BranchReplyCompletes(treeId, nodeId) ==
  \E r \in inflight :
    /\ r.treeId = treeId
    /\ r.nodeId = nodeId
    /\ \/ \E data \in Replies : branchReplySucceeds(r, data)
       \/ branchReplyFails(r)
       \/ \E data \in Replies : lateBranchReplySucceeds(r, data)
       \/ lateBranchReplyFails(r)

LiveNext ==
  \/ Next
  \/ \E r \in inflight, data \in Replies : lateBranchReplySucceeds(r, data)
  \/ \E r \in inflight : lateBranchReplyFails(r)

\* What a completion of the reply request r leaves, written out: trees and err
\* are what the continuation sets, and the commit that follows runs no effect
\* but the persist effect, since no dependency of the others has changed.
ReplySettles(r, trees, err, ok) ==
  /\ treesById' = trees
  /\ error' = err
  /\ storage' = Payload(trees, activeTreeId)
  /\ inflight' = inflight \ {r}
  /\ seen' = seen \cup Observed(r, ok)
  /\ steps' = IF steps < MaxSteps THEN steps + 1 ELSE steps
  /\ UNCHANGED <<activeTreeId, tempHighlight, selectionPopover, isLoading, codecVars,
                 treeVars>>

\* the steps of BranchReplyCompletes, in the form above
BranchReplySettles(treeId, nodeId) ==
  \E r \in inflight :
    /\ r.kind = "branchReply"
    /\ r.treeId = treeId
    /\ r.nodeId = nodeId
    /\ \/ \E data \in Replies :
            ReplySettles(r, BranchReplyResolved(treesById, r, sendToOpenAI(data)), error, TRUE)
       \/ ReplySettles(r, BranchReplyRejected(treesById, r), FailedMessage, FALSE)

\* every request that stays in flight is completed: fetch resolves or rejects
Responsive ==
  \A treeId \in TreeIdPool, nodeId \in NodeIdPool :
    WF_vars(BranchReplySettles(treeId, nodeId))

LiveSpec == Init /\ [][LiveNext]_vars /\ Responsive

----------------------------------------------------------------------------
(* The application when the user also types the text of a marker into the    *)
(* composer: handleSend takes whatever the textarea holds.                   *)

\* a message that spells out a permanent marker; "x" and "y" are ids of nothing
TypedMarker == <<BRANCH_HL_START, "x", ":", "y", META_END, "a", BRANCH_HL_END>>

TypedNext ==
  \/ Next
  \/ handleSend(TypedMarker)

TypedSpec == Init /\ [][TypedNext]_vars

----------------------------------------------------------------------------
(* The marker codec and the marker parser on one message.  The content is    *)
(* what the user or the service wrote; every codec call rewrites it and the  *)
(* markdown renderer parses the result.                                       *)

MaxContentLen == 5
MaxLiteralLen == 4
MaxCalls == 3

\* ordinary characters, and the marker tokens written out in a message
PlainAtoms == {"a", " ", "\n"}
RawAtoms == PlainAtoms \cup {TEMP_HL_START, META_END, TEMP_HL_END}

RECURSIVE TextsOver(_, _)
TextsOver(atoms, len) ==
  IF len = 0 THEN {<<>>}
  ELSE TextsOver(atoms, len - 1)
         \cup {Append(t, x) : t \in {u \in TextsOver(atoms, len - 1) : Len(u) = len - 1},
                              x \in atoms}

\* ordinary text, and shorter text that spells out marker tokens
RawContents == TextsOver(PlainAtoms, MaxContentLen) \cup TextsOver(RawAtoms, MaxLiteralLen)

\* selection.toString().trim() of rendered text: never empty, no outer whitespace
CodecSelections == {<<"a">>, <<"a", " ", "a">>}

\* No App is mounted around the codec.
AppIdle ==
  /\ treesById = <<>>
  /\ activeTreeId = Null
  /\ tempHighlight = NoTempHighlight
  /\ selectionPopover = ClosedPopover
  /\ error = NoError
  /\ isLoading = FALSE
  /\ inflight = {}
  /\ storage = NoPayload
  /\ steps = 0
  /\ seen = {}

CodecInit ==
  /\ AppIdle
  /\ markedContent \in RawContents
  /\ call = NoCall
  /\ spans = remarkBranchHighlights(markedContent)
  /\ TreeIdle

\* crypto.randomUUID(): an identifier the content does not hold
FreshIn(id, text) == \A i \in 1..Len(text) : text[i] # ToString(id)

\* One codec call on the message, and the render that follows it.
Called(op, result, selectedText, tempId, highlightId, branchNodeId) ==
  /\ call.n < MaxCalls
  /\ markedContent' = result
  /\ call' = [op |-> op, input |-> markedContent, previous |-> call.input,
              selectedText |-> selectedText, tempId |-> tempId,
              highlightId |-> highlightId, branchNodeId |-> branchNodeId,
              n |-> call.n + 1]
  /\ spans' = remarkBranchHighlights(result)
  /\ UNCHANGED <<appVars, treeVars>>

\* the apply-highlight effect
WrapTemporary(selectedText, tempId) ==
  /\ FreshIn(tempId, markedContent)
  /\ Called("wrapTemporary",
            wrapFirstMatchWithTempHighlight(markedContent, selectedText, tempId),
            selectedText, tempId, Null, Null)

\* cancel, Escape, click outside: the marker of the live tempHighlight, which
\* the call before wrote for call.selectedText
RemoveTemporary ==
  /\ call.op = "wrapTemporary"
  /\ Called("removeTemporary", removeTempHighlightById(markedContent, call.tempId),
            call.selectedText, call.tempId, Null, Null)

\* handleBranchSend when the live tempHighlight belongs to the source node
PromoteToPermanent(highlightId, branchNodeId) ==
  /\ call.op = "wrapTemporary"
  /\ FreshIn(highlightId, markedContent)
  /\ FreshIn(branchNodeId, markedContent)
  /\ Called("promoteToPermanent",
            convertTempHighlightToBranchHighlight(markedContent, call.tempId, highlightId,
                                                  branchNodeId),
            <<>>, call.tempId, highlightId, branchNodeId)

\* handleBranchSend when it does not
WrapPermanent(selectedText, highlightId, branchNodeId) ==
  /\ call.op # "wrapTemporary"
  /\ FreshIn(highlightId, markedContent)
  /\ FreshIn(branchNodeId, markedContent)
  /\ Called("wrapPermanent",
            wrapFirstMatchWithBranchHighlight(markedContent, selectedText, highlightId,
                                              branchNodeId),
            selectedText, Null, highlightId, branchNodeId)

CodecNext ==
  \/ \E selectedText \in CodecSelections, tempId \in TempIdPool :
       WrapTemporary(selectedText, tempId)
  \/ RemoveTemporary
  \/ \E highlightId \in NodeIdPool, branchNodeId \in NodeIdPool :
       PromoteToPermanent(highlightId, branchNodeId)
  \/ \E selectedText \in CodecSelections, highlightId \in NodeIdPool,
        branchNodeId \in NodeIdPool :
       WrapPermanent(selectedText, highlightId, branchNodeId)

CodecSpec == CodecInit /\ [][CodecNext]_vars

----------------------------------------------------------------------------
(* The derived views on one growing tree.  The nodes are those of the open  *)
(* tree; the graph is laid out and the context panel shows the hidden       *)
(* context of the open node on every render.                                *)

MaxBranches == 3
MaxNodeMessages == 5
MaxTreeMessages == 8
MaxAlteredTexts == 1

\* what the user and the service write: the k-th message of a node
MessageText(id, k) == <<"m", ToString(id), ".", ToString(k)>>

\* the same with a run of whitespace inside, and longer than a snippet may be
SpacedText(id, k) == <<"m", ToString(id), " ", "\n", ToString(k)>>
LongText(id, k) == MessageText(id, k) \o [i \in 1..SnippetChars |-> "x"]
MessageTexts(id, k) == {MessageText(id, k), SpacedText(id, k), LongText(id, k)}

\* the selected text a branch starts from, and one longer than an excerpt may be
ExcerptText(id) == <<"e", ToString(id)>>
LongExcerpt(id) == ExcerptText(id) \o [i \in 1..ExcerptChars |-> "x"]
ExcerptTexts(id) == {ExcerptText(id), LongExcerpt(id)}

\* the generated title of a branch
BranchTitle(id) == <<"t", ToString(id)>>

\* texts of the tree that truncateForContext does not leave as they are: they
\* hold a line break or are longer than the cut
RECURSIVE AlteredIn(_)
AlteredIn(messages) ==
  IF messages = <<>> THEN 0
  ELSE (IF Head(messages).content[4] = "\n" \/ Len(Head(messages).content) > SnippetChars
        THEN 1 ELSE 0) + AlteredIn(Tail(messages))

RECURSIVE MessagesIn(_)
MessagesIn(nodes) ==
  IF nodes = <<>> THEN 0 ELSE Len(Head(nodes).messages) + MessagesIn(Tail(nodes))

RECURSIVE AlteredTexts(_)
AlteredTexts(nodes) ==
  IF nodes = <<>> THEN 0
  ELSE AlteredIn(Head(nodes).messages)
         + (IF Len(Head(nodes).branchContext.excerpt) > ExcerptChars THEN 1 ELSE 0)
         + AlteredTexts(Tail(nodes))

\* const childrenMap = useMemo(...); const graphLayout = useMemo(...); and the
\* context panel, for the nodes and the open node of the next render
Derived(nodes, id) ==
  /\ openNodes' = nodes
  /\ openNodeId' = id
  /\ graphLayout' = graphLayoutOf(buildChildrenMap(nodes))
  /\ hiddenContext' = buildHiddenContextForNode(id, nodes)
  /\ UNCHANGED <<appVars, codecVars>>

TreeInit ==
  /\ AppIdle
  /\ CodecIdle
  /\ openNodes = <<createRootNode>>
  /\ openNodeId = RootId
  /\ graphLayout = graphLayoutOf(buildChildrenMap(openNodes))
  /\ hiddenContext = buildHiddenContextForNode(openNodeId, openNodes)

\* a message is appended to the open node: the user's, then the reply
Send(content) ==
  /\ Len(Get(openNodes, openNodeId).messages) < MaxNodeMessages
  /\ MessagesIn(openNodes) < MaxTreeMessages
  /\ Derived(Put(openNodes,
                 [Get(openNodes, openNodeId) EXCEPT !.messages =
                    Append(@, Message(IF Len(@) % 2 = 0 THEN "user" ELSE "assistant",
                                      content))]),
             openNodeId)

\* a branch from an excerpt of a message of the open node; the open node stays
Branch(excerpt) ==
  /\ Len(openNodes) <= MaxBranches
  /\ MessagesIn(openNodes) < MaxTreeMessages
  /\ Get(openNodes, openNodeId).messages # <<>>
  /\ Derived(Append(openNodes,
                    [BranchNode(Len(openNodes), openNodeId,
                                MessageText(Len(openNodes), 1), excerpt)
                       EXCEPT !.title = BranchTitle(Len(openNodes))]),
             openNodeId)

\* setActiveNodeId(nodeId) from the graph
Open(id) ==
  /\ Has(openNodes, id)
  /\ id # openNodeId
  /\ Derived(openNodes, id)

TreeNext ==
  \/ \E content \in MessageTexts(openNodeId, Len(Get(openNodes, openNodeId).messages) + 1) :
       /\ (content # MessageText(openNodeId, Len(Get(openNodes, openNodeId).messages) + 1)
             => AlteredTexts(openNodes) < MaxAlteredTexts)
       /\ Send(content)
  \/ \E excerpt \in ExcerptTexts(Len(openNodes)) :
       /\ (excerpt # ExcerptText(Len(openNodes)) => AlteredTexts(openNodes) < MaxAlteredTexts)
       /\ Branch(excerpt)
  \/ \E id \in 0..MaxBranches : Open(id)

TreeSpec == TreeInit /\ [][TreeNext]_vars

----------------------------------------------------------------------------
(* The loader on whatever localStorage holds: what this application stored,  *)
(* what another version of it stored, or what was edited by hand.            *)

\* a stored tree, and the entries treesById can hold: none, trees, null values
StoredTree(id) == createTree(id, NewTreeTitle)

EntryLists ==
  {<<>>, <<StoredTree(1)>>, <<StoredTree(1), StoredTree(MaxTreeIds)>>,
   <<StoredTree(MaxTreeIds), StoredTree(1)>>, <<StoredTree(MaxTreeIds)>>,
   <<NullEntry(1)>>, <<StoredTree(1), NullEntry(MaxTreeIds)>>,
   <<NullEntry(1), StoredTree(MaxTreeIds)>>}

\* an id that names no stored tree
DanglingId == MaxTreeIds + 1

JsonPayloads ==
  {[text |-> "json", version |-> version, treesByIdIs |-> type,
    treesById |-> IF type = "object" THEN entries ELSE <<>>,
    activeTreeId |-> active] :
     version \in {0, 1, 2}, type \in {"missing", "string", "object"},
     entries \in EntryLists, active \in TreeIdPool \cup {Null, DanglingId}}

RawPayloads ==
  {NoPayload, [NoPayload EXCEPT !.text = "unparsable"]} \cup JsonPayloads

\* the page is closed: nothing but localStorage is left
PageClosed ==
  /\ treesById = <<>>
  /\ activeTreeId = Null
  /\ tempHighlight = NoTempHighlight
  /\ selectionPopover = ClosedPopover
  /\ error = NoError
  /\ isLoading = FALSE
  /\ inflight = {}
  /\ steps = 0
  /\ seen = {}

LoadInit ==
  /\ PageClosed
  /\ storage \in RawPayloads
  /\ CodecIdle
  /\ TreeIdle

LoadFrame ==
  UNCHANGED <<tempHighlight, selectionPopover, error, isLoading, inflight, steps, seen,
              codecVars, treeVars>>

\* useState(createInitialTreeState) on opening the page, and the persist effect
\* of the first commit
OpenPage ==
  /\ treesById = <<>>
  /\ treesById' = createInitialTreeState(storage, Least(TreeIdPool)).treesById
  /\ activeTreeId' = createInitialTreeState(storage, Least(TreeIdPool)).activeTreeId
  /\ storage' = Payload(treesById', activeTreeId')
  /\ LoadFrame

\* the page is closed; localStorage stays
ClosePage ==
  /\ treesById # <<>>
  /\ treesById' = <<>>
  /\ activeTreeId' = Null
  /\ UNCHANGED storage
  /\ LoadFrame

\* something else writes the storage key while the page is closed
StorageWritten(payload) ==
  /\ treesById = <<>>
  /\ storage' = payload
  /\ UNCHANGED <<treesById, activeTreeId>>
  /\ LoadFrame

LoadNext ==
  \/ OpenPage
  \/ ClosePage
  \/ \E payload \in RawPayloads : StorageWritten(payload)

LoadSpec == LoadInit /\ [][LoadNext]_vars

----------------------------------------------------------------------------
(* Properties *)

\* the step deletes the only tree of the collection
DeletesLastTree == Len(treesById) = 1 /\ (\E treeId \in TreeIdPool : deleteTree(treeId))

\* C1: in every reachable state the tree collection is non-empty and
\* activeTreeId is the id of a tree of the collection; deleting the only
\* remaining tree leaves exactly one tree, a fresh one with a new id, and it is
\* the active tree.
C1_ActiveTreeExists ==
  /\ [](Len(treesById) > 0 /\ activeTreeId # Null /\ Has(treesById, activeTreeId))
  /\ [][DeletesLastTree =>
          /\ activeTreeId' \notin Keys(treesById)
          /\ treesById' = <<createTree(activeTreeId', NewTreeTitle)>>]_vars

\* the only tree has been deleted: one tree is left and it is not the first one
C1_Witness ==
  /\ steps = 1
  /\ Len(treesById) = 1
  /\ treesById[1].id # Least(TreeIdPool)
  /\ activeTreeId = treesById[1].id

\* following parentId from node id reaches the root within k steps
RECURSIVE ReachesRoot(_, _, _)
ReachesRoot(nodes, id, k) ==
  IF id = RootId THEN TRUE
  ELSE IF k = 0 \/ ~Has(nodes, id) THEN FALSE
  ELSE ReachesRoot(nodes, Get(nodes, id).parentId, k - 1)

\* one root, every other node under a node inserted before it, no cycle
WellFormedNodes(nodes) ==
  /\ Cardinality({i \in 1..Len(nodes) : nodes[i].parentId = Null}) = 1
  /\ \A i \in 1..Len(nodes) :
       /\ nodes[i].parentId = Null <=> nodes[i].id = RootId
       /\ nodes[i].id # RootId =>
            \E j \in 1..(i - 1) : nodes[j].id = nodes[i].parentId
       /\ ReachesRoot(nodes, nodes[i].id, Len(nodes))

\* the ids and parents of a node map, in insertion order
Shape(nodes) == [i \in 1..Len(nodes) |-> <<nodes[i].id, nodes[i].parentId>>]

StatusOf(trees, treeId, nodeId) ==
  IF Has(NodesOf(trees, treeId), nodeId)
  THEN Get(NodesOf(trees, treeId), nodeId).requestStatus
  ELSE "absent"

\* the step makes the node (in "pending"), or ends its reply request
ListedTransition(treeId, nodeId, from, to) ==
  \/ from = "absent" /\ to = "pending" /\ handleBranchSend
  \/ /\ from = "pending" /\ to = "ready"
     /\ \E data \in Replies :
          branchReplySucceeds(Request("branchReply", treeId, nodeId), data)
  \/ /\ from = "pending" /\ to = "idle"
     /\ branchReplyFails(Request("branchReply", treeId, nodeId))

\* the step's commit marks the node read: it is the active node afterwards
ReadTransition(treeId, nodeId, from, to) ==
  /\ from = "ready" /\ to = "idle"
  /\ activeTreeId' = treeId
  /\ ActiveNodeIdOf(treesById', treeId) = nodeId
  /\ ~Get(NodesOf(treesById', treeId), nodeId).hasUnread

\* C3 as stated: a branch node's requestStatus changes only by creation in
\* pending, pending to ready when its reply request succeeds, and pending to
\* idle when its reply request fails.
C3_OnlyListedTransitions ==
  [][treesById' # treesById =>
     \A treeId \in TreeIdPool, nodeId \in NodeIdPool :
       LET from == StatusOf(treesById, treeId, nodeId)
           to == StatusOf(treesById', treeId, nodeId)
       IN from # to /\ to # "absent" => ListedTransition(treeId, nodeId, from, to)]_vars

\* C3 (amended): a branch node's requestStatus changes only by creation in
\* pending, pending to ready when its reply request succeeds, pending to idle
\* (never ready) when its reply request fails, and ready to idle when the node
\* is marked read; nothing else moves a node into pending or ready.
C3_StatusTransitions ==
  [][treesById' # treesById =>
     \A treeId \in TreeIdPool, nodeId \in NodeIdPool :
       LET from == StatusOf(treesById, treeId, nodeId)
           to == StatusOf(treesById', treeId, nodeId)
       IN from # to /\ to # "absent" =>
            \/ ListedTransition(treeId, nodeId, from, to)
            \/ ReadTransition(treeId, nodeId, from, to)]_vars

\* a branch node that was ready and has been read: idle, with its reply
C3_Witness ==
  \E nd \in AllNodes(treesById) :
    /\ nd.parentId # Null
    /\ nd.requestStatus = "idle"
    /\ Len(nd.messages) = 2
    /\ nd.messages[2].role = "assistant"

\* the node shown: the active node of the active tree
ActiveNode == Get(NodesOf(treesById, activeTreeId), ActiveNodeIdOf(treesById, activeTreeId))

\* C4: the active node of the active tree does not stay ready or unread: after
\* the commit of every step its requestStatus is not ready and hasUnread is
\* false, whether it became active after its reply arrived or was already
\* active when the reply arrived.
C4_ActiveNodeIsRead == ActiveNode.requestStatus # "ready" /\ ~ActiveNode.hasUnread

\* what a failed branch reply leaves of the node it was issued for, given what
\* the node's messages must be afterwards
FailureLeaves(r, messages) ==
  /\ error' # NoError
  /\ Has(NodesOf(treesById, r.treeId), r.nodeId) =>
       /\ Has(NodesOf(treesById', r.treeId), r.nodeId)
       /\ LET node == Get(NodesOf(treesById', r.treeId), r.nodeId)
          IN /\ node.requestStatus = "idle"
             /\ ~node.hasUnread
             /\ node.messages = messages
             /\ node.messages[1].role = "user"

\* C5 as stated: when a branch's reply request fails the error message
\* becomes non-empty, the branch node is idle with hasUnread false, and the
\* node is still there with its user message as its only message.
C5_FailureLeavesOnlyUserMessage ==
  [][\A r \in inflight :
       r.kind = "branchReply" /\ branchReplyFails(r) =>
         FailureLeaves(r, <<Get(NodesOf(treesById, r.treeId), r.nodeId).messages[1]>>)]_vars

\* C5 (amended): when a branch's reply request fails the error message
\* becomes non-empty, the branch node is idle with hasUnread false, and the
\* node is still there with the messages it had before the failure, the
\* branch's user message first: nothing is appended and nothing is removed.
C5_FailureKeepsMessages ==
  [][\A r \in inflight :
       r.kind = "branchReply" /\ branchReplyFails(r) =>
         FailureLeaves(r, Get(NodesOf(treesById, r.treeId), r.nodeId).messages)]_vars

\* a branch whose reply failed: the error is shown, the node is idle and
\* holds its user message alone
C5_Witness ==
  /\ error = FailedMessage
  /\ \E nd \in AllNodes(treesById) :
       /\ nd.parentId # Null
       /\ nd.requestStatus = "idle"
       /\ ~nd.hasUnread
       /\ Len(nd.messages) = 1

\* the step is the completion, successful or failed, of request r
Completes(r) ==
  \/ \E data \in Replies : branchReplySucceeds(r, data) \/ sendReplySucceeds(r, data)
  \/ \E data \in RawTitles : branchTitleSucceeds(r, data) \/ treeTitleSucceeds(r, data)
  \/ branchReplyFails(r)
  \/ sendReplyFails(r)
  \/ branchTitleFails(r)
  \/ treeTitleFails(r)

\* C6: when a reply or title request completes, successfully or not, after
\* the tree it was issued for has been deleted, the tree store is left as it
\* was (no tree or node is created, brought back or changed), and so is what is
\* persisted.
C6_StaleCompletionIsNoOp ==
  [][\A r \in inflight :
       ~Has(treesById, r.treeId) /\ Completes(r) =>
         treesById' = treesById /\ storage' = storage]_vars

\* a request has succeeded and a reply request has failed after their tree was
\* deleted: the error is shown although no tree holds a message or a branch (a
\* change of the active tree clears the error, so it was set under the current
\* active tree, which never issued a request)
C6_Witness ==
  /\ "staleSuccess" \in seen
  /\ error = FailedMessage
  /\ \A i \in 1..Len(treesById) : treesById[i].nodesById = <<createRootNode>>

\* the two requests of one branch action
ReplyOf(treeId, nodeId) == Request("branchReply", treeId, nodeId)
TitleOf(treeId, nodeId) == Request("branchTitle", treeId, nodeId)

\* the branch actions whose reply and title requests are both in flight
OpenBranches ==
  {b \in TreeIdPool \X NodeIdPool :
     ReplyOf(b[1], b[2]) \in inflight /\ TitleOf(b[1], b[2]) \in inflight}

\* both orders of a successful title and a successful reply leave the same
\* store, and the node carries what each of them wrote
SuccessOrdersAgree(treeId, nodeId, reply, title) ==
  LET r == ReplyOf(treeId, nodeId)
      t == TitleOf(treeId, nodeId)
      replyFirst == BranchTitleResolved(BranchReplyResolved(treesById, r, reply), t, title)
      titleFirst == BranchReplyResolved(BranchTitleResolved(treesById, t, title), r, reply)
  IN /\ replyFirst = titleFirst
     /\ Has(NodesOf(treesById, treeId), nodeId) =>
          LET before == Get(NodesOf(treesById, treeId), nodeId)
              after == Get(NodesOf(replyFirst, treeId), nodeId)
          IN /\ after.title = normalizeGeneratedTitle(title, fallbackTitle)
             /\ after.messages = Append(before.messages, AssistantMessage(reply))
             /\ after.requestStatus = "ready"
             /\ after.hasUnread

\* both orders of a successful title and a failed reply leave the same store
FailureOrdersAgree(treeId, nodeId, title) ==
  LET r == ReplyOf(treeId, nodeId)
      t == TitleOf(treeId, nodeId)
      replyFirst == BranchTitleResolved(BranchReplyRejected(treesById, r), t, title)
      titleFirst == BranchReplyRejected(BranchTitleResolved(treesById, t, title), r)
  IN /\ replyFirst = titleFirst
     /\ Has(NodesOf(treesById, treeId), nodeId) =>
          LET before == Get(NodesOf(treesById, treeId), nodeId)
              after == Get(NodesOf(replyFirst, treeId), nodeId)
          IN /\ after.title = normalizeGeneratedTitle(title, fallbackTitle)
             /\ after.messages = before.messages
             /\ after.requestStatus = "idle"

\* C7: for a branch action whose title and reply requests are both in flight,
\* applying the title completion and the reply completion in either order
\* gives the same node (title, messages, requestStatus, hasUnread), and the
\* node keeps what each completion wrote: the generated title, and the reply
\* with ready and unread (or idle after a failed reply).
C7_CompletionsCommute ==
  \A b \in OpenBranches :
    \A data \in RawTitles :
      /\ FailureOrdersAgree(b[1], b[2], sendToOpenAI(data))
      /\ \A reply \in Replies :
           SuccessOrdersAgree(b[1], b[2], sendToOpenAI(reply), sendToOpenAI(data))

\* a branch node on which both completions have been applied: it carries a
\* generated title and the reply
C7_Witness ==
  \E nd \in AllNodes(treesById) :
    /\ nd.parentId # Null
    /\ nd.title # fallbackTitle
    /\ Len(nd.messages) = 2
    /\ nd.messages[2].role = "assistant"
    /\ nd.requestStatus = "ready"

\* the number of words of a title
WordCount(title) == Len(FilterNonEmpty(SplitSpace(title)))

\* the title of tree treeId before and after the step
TitleBefore(treeId) == Get(treesById, treeId).title
TitleAfter(treeId) == Get(treesById', treeId).title

\* the step is the arrival of a generated title for an existing tree
TreeTitleArrives(r, data) ==
  r.kind = "treeTitle" /\ Has(treesById, r.treeId) /\ treeTitleSucceeds(r, data)

\* the step is the arrival of a generated title for an existing branch node
BranchTitleArrives(r, data) ==
  /\ r.kind = "branchTitle"
  /\ Has(NodesOf(treesById, r.treeId), r.nodeId)
  /\ branchTitleSucceeds(r, data)

TitleFails(r) == branchTitleFails(r) \/ treeTitleFails(r)

\* the node a branch reply request was issued for, before and after the step
ReplyNodeBefore(r) == Get(NodesOf(treesById, r.treeId), r.nodeId)
ReplyNodeAfter(r) == Get(NodesOf(treesById', r.treeId), r.nodeId)

\* C9: a failed title request changes nothing but the set of requests in
\* flight, from which only itself is removed: the error message, every title
\* and the rest of the component state stay as they are; and whether or not
\* the title request of a branch is still in flight, a successful reply makes
\* the node ready with the reply appended and a failed reply makes it idle,
\* and the reply to a message sent on a node ends the loading state.
C9_TitleFailureIsSilent ==
  [][\A r \in inflight :
       /\ TitleFails(r) =>
            /\ UNCHANGED <<treesById, activeTreeId, tempHighlight, selectionPopover,
                           error, isLoading, storage>>
            /\ inflight' = inflight \ {r}
       /\ r.kind = "branchReply" /\ Has(NodesOf(treesById, r.treeId), r.nodeId) =>
            /\ \A data \in Replies :
                 branchReplySucceeds(r, data) =>
                   /\ ReplyNodeAfter(r).requestStatus = "ready"
                   /\ ReplyNodeAfter(r).messages =
                        Append(ReplyNodeBefore(r).messages,
                               AssistantMessage(sendToOpenAI(data)))
                   /\ ReplyNodeAfter(r).title = ReplyNodeBefore(r).title
            /\ branchReplyFails(r) =>
                 /\ ReplyNodeAfter(r).requestStatus = "idle"
                 /\ ReplyNodeAfter(r).title = ReplyNodeBefore(r).title
       /\ r.kind = "sendReply" =>
            /\ \A data \in Replies : sendReplySucceeds(r, data) => ~isLoading'
            /\ sendReplyFails(r) => ~isLoading' /\ error' # NoError]_vars

\* the title request of a branch has failed and its reply has arrived: the
\* node is ready under its placeholder title and no error is shown
C9_Witness ==
  /\ "titleFailed" \in seen
  /\ error = NoError
  /\ \E i \in 1..Len(treesById) :
       \E nd \in Range(treesById[i].nodesById) :
         /\ nd.parentId # Null
         /\ nd.title = fallbackTitle
         /\ nd.requestStatus = "ready"
         /\ TitleOf(treesById[i].id, nd.id) \notin inflight

\* the number of temporary start tokens in the messages m..Len(messages)
RECURSIVE TempMarkersFrom(_, _)
TempMarkersFrom(messages, m) ==
  IF m > Len(messages) THEN 0
  ELSE CountAtom(messages[m].content, TEMP_HL_START) + TempMarkersFrom(messages, m + 1)

\* the number of temporary start tokens in the nodes n..Len(nodes)
RECURSIVE TempMarkersIn(_, _)
TempMarkersIn(nodes, n) ==
  IF n > Len(nodes) THEN 0
  ELSE TempMarkersFrom(nodes[n].messages, 1) + TempMarkersIn(nodes, n + 1)

\* C10: in every reachable state, each tree holds at most one temporary
\* marker across all messages of all its nodes, also after the state has been
\* loaded again from what was persisted.
C10_OneTempMarkerPerTree ==
  \A i \in 1..Len(treesById) : TempMarkersIn(treesById[i].nodesById, 1) <= 1

----------------------------------------------------------------------------
(* Properties of the marker codec (CodecSpec) *)

\* the text holds a token of the temporary family
HoldsTempToken(text) ==
  \E i \in 1..Len(text) : text[i] \in {TEMP_HL_START, TEMP_HL_END}

\* s occurs verbatim in c
Contains(c, s) == indexOf(c, s) # -1

\* C11 as stated: for every content c, selection s and id such that c contains
\* s verbatim, removing the temporary marker id from wrapTemporary(c, s, id)
\* gives back c.
C11_RoundTripRestoresContent ==
  call.op = "removeTemporary" /\ Contains(call.previous, call.selectedText)
    => markedContent = call.previous

\* C11, amended: for every content c, selection s and id such that c contains
\* s verbatim, removing the temporary marker id from wrapTemporary(c, s, id)
\* gives c with every temporary token it held stripped; it gives back c when c
\* holds no token of the temporary family.
C11_RoundTripStripsTemporary ==
  call.op = "removeTemporary" /\ Contains(call.previous, call.selectedText)
    => /\ markedContent = stripAllTempHighlights(call.previous)
       /\ (~HoldsTempToken(call.previous) => markedContent = call.previous)

\* a marker was put around a verbatim selection of token-free text and removed
\* again, and the text is back
C11_Witness ==
  /\ call.op = "removeTemporary"
  /\ ~HoldsTempToken(call.previous)
  /\ call.input # call.previous
  /\ CountAtom(call.input, TEMP_HL_END) = 1
  /\ markedContent = call.previous

\* the content c with the two tokens of its temporary marker tempId rewritten
\* and everything else in place: the text before the start token, the enclosed
\* text, the text after the end token
PromotedInPlace(c, start, end, highlightId, branchNodeId) ==
  IF start = -1 \/ end = -1 THEN c
  ELSE SubSeq(c, 1, start) \o BranchStartToken(highlightId, branchNodeId)
         \o SubSeq(c, start + 4, end) \o <<BRANCH_HL_END>>
         \o SubSeq(c, end + 2, Len(c))

Promoted(c, tempId, highlightId, branchNodeId) ==
  PromotedInPlace(c, indexOf(c, TempStartToken(tempId)),
                  IndexFrom(c, TEMP_HL_END, indexOf(c, TempStartToken(tempId)) + 3),
                  highlightId, branchNodeId)

Spliced(c, s, tempId) ==
  SubSeq(c, 1, indexOf(c, s)) \o TempStartToken(tempId) \o s \o <<TEMP_HL_END>>
    \o SubSeq(c, indexOf(c, s) + Len(s) + 1, Len(c))

\* C13 as stated: when content contains selectedText verbatim, wrapTemporary
\* returns prefix + start token + selectedText + end token + suffix, prefix and
\* suffix being the content before and after the first occurrence of
\* selectedText, untouched, and the result holds exactly one temporary marker
\* even if content already held one.
C13_WrapsFirstOccurrenceInContent ==
  call.op = "wrapTemporary" /\ Contains(call.input, call.selectedText)
    => /\ markedContent = Spliced(call.input, call.selectedText, call.tempId)
       /\ CountAtom(markedContent, TEMP_HL_END) = 1

\* C13, amended: when the content stripped of its temporary tokens (the content
\* itself when it holds none) contains selectedText verbatim, wrapTemporary
\* returns prefix + start token + selectedText + end token + suffix, prefix and
\* suffix being the text before and after the first occurrence of selectedText
\* in that stripped content; the result holds exactly one temporary end token
\* and exactly one start token with the new id.
C13_WrapsFirstOccurrenceInStripped ==
  (/\ call.op = "wrapTemporary"
   /\ Contains(stripAllTempHighlights(call.input), call.selectedText))
    => /\ markedContent = Spliced(stripAllTempHighlights(call.input), call.selectedText,
                                  call.tempId)
       /\ CountAtom(markedContent, TEMP_HL_END) = 1
       /\ CountAtom(markedContent, ToString(call.tempId)) = 1
       /\ (~HoldsTempToken(call.input)
             => markedContent = Spliced(call.input, call.selectedText, call.tempId))

\* the selection occurs twice in a content that held a temporary marker, text
\* precedes its first occurrence, and that occurrence alone is wrapped
C13_Witness ==
  /\ call.op = "wrapTemporary"
  /\ CountAtom(call.input, TEMP_HL_START) = 1
  /\ CountAtom(call.input, TEMP_HL_END) = 1
  /\ CountAtom(markedContent, TEMP_HL_START) = 1
  /\ indexOf(call.input, call.selectedText) > 0
  /\ indexOf(stripAllTempHighlights(call.input), call.selectedText) > 0
  /\ Contains(SubSeq(markedContent, IndexFrom(markedContent, TEMP_HL_END, 0) + 2,
                     Len(markedContent)),
              call.selectedText)
  /\ CountAtom(markedContent, TEMP_HL_END) = 1

\* The length atoms of c from the 0-based position at are the selection s up to
\* whitespace: the same characters, with one or more whitespace characters
\* wherever the trimmed selection has a run of whitespace.
NormalizedAt(c, at, length, s) ==
  /\ at + length <= Len(c)
  /\ CollapseWs(SubSeq(c, at + 1, at + length)) = CollapseWs(Trim(s))

OccursNormalized(c, s) ==
  \E at \in 0..Len(c), length \in 1..Len(c) : NormalizedAt(c, at, length, s)

\* c with start and end around the first occurrence of s up to whitespace
WrapsFirstNormalized(result, c, s, start, end) ==
  \E at \in 0..Len(c), length \in 1..Len(c) :
    /\ NormalizedAt(c, at, length, s)
    /\ \A before \in 0..(at - 1), other \in 1..Len(c) : ~NormalizedAt(c, before, other, s)
    /\ result = SubSeq(c, 1, at) \o start \o SubSeq(c, at + 1, at + length) \o end
                  \o SubSeq(c, at + length + 1, Len(c))

\* the text wrapTemporary and wrapPermanent search: the first strips the
\* temporary tokens, the second takes the content as it is
Searched(c) ==
  IF c.op = "wrapTemporary" THEN stripAllTempHighlights(c.input) ELSE c.input

StartTokenOf(c) ==
  IF c.op = "wrapTemporary" THEN TempStartToken(c.tempId)
  ELSE BranchStartToken(c.highlightId, c.branchNodeId)

EndTokenOf(c) == IF c.op = "wrapTemporary" THEN <<TEMP_HL_END>> ELSE <<BRANCH_HL_END>>

\* the text between the first temporary start token with an id and the end
\* token that follows it
WrappedText(c, tempId) ==
  SubSeq(c, indexOf(c, TempStartToken(tempId)) + 4, IndexFrom(c, TEMP_HL_END, 0))

\* C14 as stated: when selectedText does not occur verbatim in content but
\* occurs there up to whitespace, wrapTemporary wraps the first such occurrence
\* in content, the wrapped text being the characters of the content.
C14_WrapsFirstNormalizedInContent ==
  (/\ call.op = "wrapTemporary"
   /\ ~Contains(call.input, call.selectedText)
   /\ OccursNormalized(call.input, call.selectedText))
    => \E at \in 0..Len(call.input), length \in 1..Len(call.input) :
         /\ NormalizedAt(call.input, at, length, call.selectedText)
         /\ \A before \in 0..(at - 1), other \in 1..Len(call.input) :
              ~NormalizedAt(call.input, before, other, call.selectedText)
         /\ WrappedText(markedContent, call.tempId)
              = SubSeq(call.input, at + 1, at + length)

\* C14, amended: wrapTemporary searches the content stripped of its temporary
\* tokens, wrapPermanent the content as it is.  When selectedText does not occur
\* verbatim in the searched text but occurs there up to whitespace (selection
\* trimmed, every run of whitespace in it matching one or more whitespace
\* characters), the result is the searched text with the start and end token
\* around the first such occurrence, the wrapped text being the characters of
\* the content, not of the selection.
C14_WrapsFirstNormalizedInSearched ==
  (/\ call.op \in {"wrapTemporary", "wrapPermanent"}
   /\ ~Contains(Searched(call), call.selectedText)
   /\ OccursNormalized(Searched(call), call.selectedText))
    => WrapsFirstNormalized(markedContent, Searched(call), call.selectedText,
                            StartTokenOf(call), EndTokenOf(call))

\* a selection with a space was wrapped around text of the content that has a
\* line break there, the first of two places where it occurs up to whitespace
C14_Witness ==
  /\ call.op = "wrapTemporary"
  /\ call.selectedText = <<"a", " ", "a">>
  /\ call.input = <<"a", "\n", "a", "\n", "a">>
  /\ markedContent = TempStartToken(call.tempId) \o <<"a", "\n", "a", TEMP_HL_END, "\n", "a">>

\* C15: when selectedText matches neither verbatim nor up to whitespace, in the
\* content or in the content stripped of its temporary tokens, wrapTemporary
\* returns its content argument unchanged, also when the content already holds
\* a temporary marker.
C15_NoMatchReturnsContent ==
  (/\ call.op = "wrapTemporary"
   /\ ~Contains(call.input, call.selectedText)
   /\ ~OccursNormalized(call.input, call.selectedText)
   /\ ~Contains(stripAllTempHighlights(call.input), call.selectedText)
   /\ ~OccursNormalized(stripAllTempHighlights(call.input), call.selectedText))
    => markedContent = call.input

IsMarkerToken(atom) ==
  atom \in {TEMP_HL_START, TEMP_HL_END, BRANCH_HL_START, BRANCH_HL_END}

\* C16: the text of an emitted highlight span never contains a marker token,
\* also for nested or overlapping markers: a start token with no end token of
\* its family before the next start token yields no span.
C16_SpanTextHoldsNoToken ==
  \A k \in 1..Len(spans) :
    spans[k].kind # "text"
      => \A j \in 1..Len(spans[k].text) : ~IsMarkerToken(spans[k].text[j])

\* the characters of a text, with every token atom split where the parser can
\* split it: before the ":" of a start token and before the "]]]" of an end token
RECURSIVE Characters(_)
Characters(s) ==
  IF s = <<>> THEN <<>>
  ELSE (IF Head(s) = TEMP_HL_START THEN <<"[[[sel", ":">>
        ELSE IF Head(s) = BRANCH_HL_START THEN <<"[[[hl", ":">>
        ELSE IF Head(s) = TEMP_HL_END THEN <<"[[[/sel", META_END>>
        ELSE IF Head(s) = BRANCH_HL_END THEN <<"[[[/hl", META_END>>
        ELSE <<Head(s)>>) \o Characters(Tail(s))

\* the spans in order, every highlight span back between the tokens it was
\* parsed from
RECURSIVE Reassembled(_)
Reassembled(parsed) ==
  IF parsed = <<>> THEN <<>>
  ELSE (CASE Head(parsed).kind = "text" -> Head(parsed).text
          [] Head(parsed).kind = "temporary" ->
               <<TEMP_HL_START>> \o Head(parsed).tempId \o <<META_END>>
                 \o Head(parsed).text \o <<TEMP_HL_END>>
          [] Head(parsed).kind = "permanent" ->
               <<BRANCH_HL_START>> \o Head(parsed).highlightId \o <<":">>
                 \o Head(parsed).branchNodeId \o <<META_END>>
                 \o Head(parsed).text \o <<BRANCH_HL_END>>)
       \o Reassembled(Tail(parsed))

\* C17: the spans of the parser, concatenated in order, are the text without
\* the tokens of the emitted highlight spans, that is, putting those tokens
\* back gives the text: no plain text is lost, reordered or emitted twice, also
\* when the parse stops early.
C17_SpansPartitionText ==
  Characters(Reassembled(spans)) = Characters(markedContent)

----------------------------------------------------------------------------
(* Properties of the derived views (TreeSpec) *)

KidsOf(nodes, id) == {nodes[i].id : i \in {j \in 1..Len(nodes) : nodes[j].parentId = id}}

RECURSIVE DepthIn(_, _)
DepthIn(nodes, id) ==
  IF Get(nodes, id).parentId = Null THEN 0 ELSE 1 + DepthIn(nodes, Get(nodes, id).parentId)

\* a node and the nodes above it
RECURSIVE UpFrom(_, _)
UpFrom(nodes, id) ==
  IF Get(nodes, id).parentId = Null THEN {id}
  ELSE {id} \cup UpFrom(nodes, Get(nodes, id).parentId)

\* a comes before b in the depth-first walk that takes the children of a node
\* in the order the node map holds them: where their ways up to the root meet,
\* the child towards a is an earlier child than the child towards b
WalkedBefore(nodes, a, b) ==
  \E c \in Keys(nodes) :
    \E ca \in KidsOf(nodes, c) \cap UpFrom(nodes, a), cb \in KidsOf(nodes, c) \cap UpFrom(nodes, b) :
      IndexOfId(nodes, ca) < IndexOfId(nodes, cb)

LeavesBefore(nodes, id) ==
  {b \in Keys(nodes) : KidsOf(nodes, b) = {} /\ WalkedBefore(nodes, b, id)}

XOf(id) == graphLayout.positions[id].x
YOf(id) == graphLayout.positions[id].y

\* C18: in the graph layout every node with children has its x at the midpoint
\* between the smallest and the largest x of its children (the mean of the two
\* for two children), every leaf has the cursor position of its rank among the
\* leaves in depth-first child order, the cursor advancing by one constant step
\* per leaf, and the y of every node is one constant step per level of depth.
C18_LayoutMidpointsAndSteps ==
  \A id \in Keys(openNodes) :
    /\ id \in DOMAIN graphLayout.positions
    /\ YOf(id) = YTop + YStep * DepthIn(openNodes, id)
    /\ KidsOf(openNodes, id) = {}
         => XOf(id) = (XStart + XStep * Cardinality(LeavesBefore(openNodes, id))) * XScale
    /\ KidsOf(openNodes, id) # {}
         => /\ \E low, high \in KidsOf(openNodes, id) :
                 /\ \A kid \in KidsOf(openNodes, id) : XOf(low) <= XOf(kid) /\ XOf(kid) <= XOf(high)
                 /\ 2 * XOf(id) = XOf(low) + XOf(high)
            /\ Cardinality(KidsOf(openNodes, id)) = 2
                 => \E one, other \in KidsOf(openNodes, id) :
                      one # other /\ 2 * XOf(id) = XOf(one) + XOf(other)

\* a root above a child with a child of its own and a leaf child: the leaf of
\* the subtree takes the first cursor position, the other leaf the second
C18_Witness ==
  /\ Len(openNodes) = 4
  /\ Cardinality(KidsOf(openNodes, RootId)) = 2
  /\ \E id \in Keys(openNodes) : DepthIn(openNodes, id) = 2
  /\ \E kid \in KidsOf(openNodes, RootId) :
       KidsOf(openNodes, kid) = {} /\ XOf(kid) = (XStart + XStep) * XScale
  /\ 2 * XOf(RootId) = (XStart + XStart + XStep) * XScale

\* the strict ancestors of a node from the root down to its parent
AncestorsOf(nodes, id) ==
  [d \in 1..DepthIn(nodes, id) |->
     CHOOSE a \in UpFrom(nodes, id) : DepthIn(nodes, a) = d - 1]

\* the lines of a kind, in order
RECURSIVE LinesOf(_, _)
LinesOf(lines, kind) ==
  IF lines = <<>> THEN <<>>
  ELSE (IF Head(lines).kind = kind THEN <<Head(lines)>> ELSE <<>>)
         \o LinesOf(Tail(lines), kind)

\* the ancestors that have messages, in order
RECURSIVE Speaking(_, _)
Speaking(nodes, ids) ==
  IF ids = <<>> THEN <<>>
  ELSE (IF Get(nodes, Head(ids)).messages # <<>> THEN <<Head(ids)>> ELSE <<>>)
         \o Speaking(nodes, Tail(ids))

\* a snippet shows a message: its role, and its content with whitespace
\* collapsed and cut to the snippet length
Shows(snippet, message) ==
  /\ snippet.role = message.role
  /\ snippet.content = truncateForContext(message.content, SnippetChars)

\* a section shows exactly the last min(4, n) messages of a node, in order,
\* under the title of the node
SectionOf(section, node) ==
  /\ section.title = node.title
  /\ Len(section.snippets)
       = (IF Len(node.messages) < 4 THEN Len(node.messages) ELSE 4)
  /\ \A j \in 1..Len(section.snippets) :
       Shows(section.snippets[j],
             node.messages[Len(node.messages) - Len(section.snippets) + j])

\* C19: the hidden context of the open node holds the branch excerpt of the
\* node when it has one, and for every strict ancestor that has messages, from
\* the root down to the parent, one section under the title of the ancestor
\* with exactly its last min(4, n) messages in order; no snippet shows a
\* message of the node itself or of a node that is not one of its ancestors.
C19_ContextOfAncestors ==
  openNodes # <<>> =>
    /\ Get(openNodes, openNodeId).branchContext.excerpt # <<>>
         => \E i \in 1..Len(hiddenContext) :
              /\ hiddenContext[i].kind = "excerpt"
              /\ hiddenContext[i].text
                   = truncateForContext(Get(openNodes, openNodeId).branchContext.excerpt,
                                        ExcerptChars)
    /\ Len(LinesOf(hiddenContext, "section"))
         = Len(Speaking(openNodes, AncestorsOf(openNodes, openNodeId)))
    /\ \A j \in 1..Len(LinesOf(hiddenContext, "section")) :
         SectionOf(LinesOf(hiddenContext, "section")[j],
                   Get(openNodes, Speaking(openNodes, AncestorsOf(openNodes, openNodeId))[j]))
    /\ \A i \in 1..Len(hiddenContext), id \in Keys(openNodes) \ (UpFrom(openNodes, openNodeId) \ {openNodeId}) :
         \A j \in 1..Len(hiddenContext[i].snippets), k \in 1..Len(Get(openNodes, id).messages) :
           hiddenContext[i].snippets[j].content
             # truncateForContext(Get(openNodes, id).messages[k].content, SnippetChars)

\* the open node is three levels deep, has an excerpt and a message of its own,
\* its root holds more than four messages and its parent fewer, and a node
\* beside the chain holds a message
C19_Witness ==
  /\ openNodes # <<>>
  /\ DepthIn(openNodes, openNodeId) = 2
  /\ Get(openNodes, openNodeId).branchContext.excerpt # <<>>
  /\ Get(openNodes, openNodeId).messages # <<>>
  /\ Len(Get(openNodes, RootId).messages) = 5
  /\ Len(Get(openNodes, Get(openNodes, openNodeId).parentId).messages) = 1
  /\ \E id \in Keys(openNodes) \ UpFrom(openNodes, openNodeId) :
       Get(openNodes, id).messages # <<>>
  /\ Len(LinesOf(hiddenContext, "section")) = 2
  /\ Len(LinesOf(hiddenContext, "section")[1].snippets) = 4
  /\ Len(LinesOf(hiddenContext, "section")[2].snippets) = 1

\* the number of messages the sections of a context show
RECURSIVE SnippetsIn(_)
SnippetsIn(lines) ==
  IF lines = <<>> THEN 0 ELSE Len(Head(lines).snippets) + SnippetsIn(Tail(lines))

\* C20 as stated: the number of sections and of ancestor messages in the hidden
\* context is within one fixed bound at every depth, the bound a node directly
\* below the root already reaches: one section of four messages.
C20_SizeIndependentOfDepth ==
  /\ Len(LinesOf(hiddenContext, "section")) <= 1
  /\ SnippetsIn(hiddenContext) <= TailSize

\* C20, amended: the hidden context of a node has one section for each of its
\* strict ancestors, every section shows at most four messages however many
\* the ancestor holds, every message is cut to 220 characters and the excerpt
\* to 1200; so its size does not depend on the number of messages of the
\* ancestors, and grows in proportion to the depth of the node.
C20_SizeProportionalToDepth ==
  openNodes # <<>> =>
    /\ Len(LinesOf(hiddenContext, "section")) = DepthIn(openNodes, openNodeId)
    /\ SnippetsIn(hiddenContext) <= TailSize * DepthIn(openNodes, openNodeId)
    /\ \A i \in 1..Len(hiddenContext) :
         /\ Len(hiddenContext[i].snippets) <= TailSize
         /\ Len(hiddenContext[i].text) <= ExcerptChars
         /\ \A j \in 1..Len(hiddenContext[i].snippets) :
              Len(hiddenContext[i].snippets[j].content) <= SnippetChars

\* a node two levels below a root of five messages: two sections, and more
\* messages than one section can show
C20_Witness ==
  /\ openNodes # <<>>
  /\ DepthIn(openNodes, openNodeId) = 2
  /\ Len(Get(openNodes, RootId).messages) > TailSize
  /\ Len(LinesOf(hiddenContext, "section")) = 2
  /\ SnippetsIn(hiddenContext) > TailSize
  /\ \E i \in 1..Len(hiddenContext) : Len(hiddenContext[i].snippets) = TailSize

\* how often an id is listed under a key of a children map
ListedUnder(map, key, id) ==
  Cardinality({i \in 1..Len(map[key]) : map[key][i] = id})

----------------------------------------------------------------------------
(* Further properties of the application (Spec) *)

\* a tree without its updatedAt
Unstamped(tree) ==
  [id |-> tree.id, title |-> tree.title, nodesById |-> tree.nodesById,
   activeNodeId |-> tree.activeNodeId]

\* C22: a step that changes a tree (a node added, messages or a node updated,
\* the active node set, the title written or renamed) writes the updatedAt of
\* that tree.
C22_EveryMutationStampsTree ==
  [][\A treeId \in TreeIdPool :
       (/\ Has(treesById, treeId) /\ Has(treesById', treeId)
        /\ Unstamped(Get(treesById', treeId)) # Unstamped(Get(treesById, treeId)))
         => Get(treesById', treeId).updatedAt # Get(treesById, treeId).updatedAt]_vars

\* an entry of a tree map that is a tree
IsTree(entry) == "nodesById" \in DOMAIN entry

\* what the loader is to treat as absent
TreatedAsAbsent(payload) ==
  \/ payload.text # "json"
  \/ payload.version # 1
  \/ payload.treesByIdIs # "object"
  \/ payload.treesById = <<>>
  \/ \E i \in 1..Len(payload.treesById) : ~IsTree(payload.treesById[i])

\* C23: opening the page over any stored payload gives a state with at least
\* one tree and an activeTreeId that names one of its trees; a payload that
\* does not parse, with another version, with a missing or malformed treesById
\* or with no tree gives the single fresh default tree, and a valid payload
\* whose activeTreeId names no tree gives its trees with one of them active.
C23_LoadingYieldsTrees ==
  [][OpenPage =>
       /\ treesById' # <<>>
       /\ \A i \in 1..Len(treesById') : IsTree(treesById'[i])
       /\ Has(treesById', activeTreeId')
       /\ TreatedAsAbsent(storage)
            => treesById' = <<createTree(Least(TreeIdPool), NewTreeTitle)>>
       /\ ~TreatedAsAbsent(storage) => treesById' = storage.treesById]_vars

\* the active node of every tree, by tree id
ActiveNodeIds(trees) == [i \in 1..Len(trees) |-> <<trees[i].id, trees[i].activeNodeId>>]

\* a reply or title request of a branch completes
BranchCompletes ==
  \/ \E r \in inflight, data \in Replies : branchReplySucceeds(r, data)
  \/ \E r \in inflight : branchReplyFails(r)
  \/ \E r \in inflight, data \in RawTitles : branchTitleSucceeds(r, data)
  \/ \E r \in inflight : branchTitleFails(r)

\* the tree and the source node handleBranchSend works on
BranchTreeId == IF selectionPopover.treeId # Null THEN selectionPopover.treeId ELSE activeTreeId
BranchSourceId ==
  IF selectionPopover.nodeId # Null THEN selectionPopover.nodeId
  ELSE ActiveNodeIdOf(treesById, activeTreeId)

\* C24: creating a branch adds the child node in pending state with hasUnread
\* false, the placeholder title and a branchContext holding the excerpt and the
\* source node id, and changes neither the activeNodeId of any tree nor
\* activeTreeId; the completions of its reply and title requests change
\* neither of them as well.
C24_BranchCreationFrame ==
  /\ [][handleBranchSend =>
          /\ \E newNodeId \in NodeIdPool :
               /\ ~Has(NodesOf(treesById, BranchTreeId), newNodeId)
               /\ Has(NodesOf(treesById', BranchTreeId), newNodeId)
               /\ Len(NodesOf(treesById', BranchTreeId))
                    = Len(NodesOf(treesById, BranchTreeId)) + 1
               /\ LET node == Get(NodesOf(treesById', BranchTreeId), newNodeId)
                  IN /\ node.requestStatus = "pending"
                     /\ node.hasUnread = FALSE
                     /\ node.title = <<"...">>
                     /\ node.parentId = BranchSourceId
                     /\ node.branchContext =
                          [excerpt |-> Trim(selectionPopover.text),
                           sourceNodeId |-> BranchSourceId]
                     /\ node.messages = <<Message("user", Trim(selectionPopover.draft))>>
          /\ ActiveNodeIds(treesById') = ActiveNodeIds(treesById)
          /\ activeTreeId' = activeTreeId]_vars
  /\ [][BranchCompletes =>
          /\ ActiveNodeIds(treesById') = ActiveNodeIds(treesById)
          /\ activeTreeId' = activeTreeId]_vars

\* a branch was created from the root and its reply and its title arrived,
\* and the root is still the active node
C24_Witness ==
  /\ inflight = {}
  /\ \E i \in 1..Len(treesById) :
       /\ treesById[i].id = activeTreeId
       /\ treesById[i].activeNodeId = RootId
       /\ \E j \in 1..Len(treesById[i].nodesById) :
            LET node == treesById[i].nodesById[j]
            IN /\ node.parentId = RootId
               /\ node.requestStatus = "ready"
               /\ node.title # <<"...">>
               /\ Len(node.messages) = 2

\* the id of the node a handleBranchSend step adds
NewBranchNodeId ==
  CHOOSE n \in NodeIdPool :
    ~Has(NodesOf(treesById, BranchTreeId), n) /\ Has(NodesOf(treesById', BranchTreeId), n)

\* the content of message messageIndex of the source node, in a tree map
SourceContent(trees, messageIndex) ==
  Get(NodesOf(trees, BranchTreeId), BranchSourceId).messages[messageIndex + 1].content

\* the temporary marker recorded in tempHighlight is on the source node
TempMarkerLive ==
  /\ TempBelongsTo(tempHighlight, BranchTreeId, BranchSourceId)
  /\ Contains(SourceContent(treesById, tempHighlight.messageIndex),
              TempStartToken(tempHighlight.tempId))

\* the popover's excerpt has a match in the message it was selected in
ExcerptMatches ==
  /\ selectionPopover.messageIndex # Null
  /\ OccursNormalized(SourceContent(treesById, selectionPopover.messageIndex),
                      selectionPopover.text)

\* C25: a branch created while a temporary marker is live on the source node
\* leaves in the source message a permanent marker bound to the new node's id
\* around the text the temporary marker enclosed, leaves no temporary marker in
\* that tree and clears tempHighlight; a branch created when no temporary
\* marker belongs to the source node wraps the first match of the excerpt in
\* the selected message in a permanent marker bound to the new node's id.
C25_BranchPromotesMarker ==
  [][handleBranchSend =>
       /\ TempMarkerLive =>
            /\ \E highlightId \in NodeIdPool :
                 Contains(SourceContent(treesById', tempHighlight.messageIndex),
                          BranchStartToken(highlightId, NewBranchNodeId)
                            \o WrappedText(SourceContent(treesById, tempHighlight.messageIndex),
                                           tempHighlight.tempId)
                            \o <<BRANCH_HL_END>>)
            /\ TempMarkersIn(NodesOf(treesById', BranchTreeId), 1) = 0
            /\ tempHighlight' = NoTempHighlight
       /\ (~TempBelongsTo(tempHighlight, BranchTreeId, BranchSourceId) /\ ExcerptMatches) =>
            \E highlightId \in NodeIdPool :
              WrapsFirstNormalized(SourceContent(treesById', selectionPopover.messageIndex),
                                   SourceContent(treesById, selectionPopover.messageIndex),
                                   selectionPopover.text,
                                   BranchStartToken(highlightId, NewBranchNodeId),
                                   <<BRANCH_HL_END>>)]_vars

\* the node a request was issued for, in a tree map
NodeOf(trees, r) == Get(NodesOf(trees, r.treeId), r.nodeId)

HasNodeOf(trees, r) == Has(trees, r.treeId) /\ Has(NodesOf(trees, r.treeId), r.nodeId)

\* C26: in every reachable state and for every node, hasUnread is true
\* exactly when requestStatus is ready; a reply that succeeds sets both, a
\* reply that fails leaves hasUnread false, and a node that is read has both
\* cleared.
C26_UnreadIffReady ==
  /\ [](\A i \in 1..Len(treesById) :
          \A j \in 1..Len(treesById[i].nodesById) :
            treesById[i].nodesById[j].hasUnread
              <=> treesById[i].nodesById[j].requestStatus = "ready")
  /\ [][\A r \in inflight :
          /\ (HasNodeOf(treesById, r) /\ \E data \in Replies : branchReplySucceeds(r, data))
               => NodeOf(treesById', r).hasUnread
                    /\ NodeOf(treesById', r).requestStatus = "ready"
          /\ (HasNodeOf(treesById, r) /\ branchReplyFails(r))
               => ~NodeOf(treesById', r).hasUnread
                    /\ NodeOf(treesById', r).requestStatus = "idle"]_vars
  /\ [][\A nodeId \in NodeIdPool :
          (/\ setActiveNodeId(nodeId)
           /\ ActiveNodeIdOf(treesById, activeTreeId) # nodeId
           /\ Get(NodesOf(treesById, activeTreeId), nodeId).hasUnread)
            => /\ ~Get(NodesOf(treesById', activeTreeId), nodeId).hasUnread
               /\ Get(NodesOf(treesById', activeTreeId), nodeId).requestStatus = "idle"]_vars

\* the reply of a branch has arrived and the branch was then opened and read:
\* it holds the reply and is idle with nothing unread
C26_Witness ==
  \E i \in 1..Len(treesById) :
    \E j \in 1..Len(treesById[i].nodesById) :
      /\ treesById[i].activeNodeId = treesById[i].nodesById[j].id
      /\ treesById[i].nodesById[j].parentId # Null
      /\ Len(treesById[i].nodesById[j].messages) = 2
      /\ ~treesById[i].nodesById[j].hasUnread
      /\ treesById[i].nodesById[j].requestStatus = "idle"

\* the permanent markers of a tree: node, message and position of every
\* permanent start token
PermanentMarkers(tree) ==
  {<<j, m, i>> \in (1..Len(tree.nodesById)) \X (1..MaxMessages) \X (1..(3 * MaxMessages + 8)) :
     /\ m <= Len(tree.nodesById[j].messages)
     /\ i <= Len(tree.nodesById[j].messages[m].content)
     /\ tree.nodesById[j].messages[m].content[i] = BRANCH_HL_START}

\* the branchNodeId a permanent start token carries: [[[hl:<highlightId>:<branchNodeId>]]]
BranchNodeIdAt(tree, at) ==
  LET content == tree.nodesById[at[1]].messages[at[2]].content
  IN IF at[3] + 3 <= Len(content) /\ content[at[3] + 2] = ":" THEN content[at[3] + 3]
     ELSE ""

\* C27: in every reachable state, every permanent marker in a message of a
\* node N carries the id of an existing node of the same tree whose parentId is
\* N, and no two permanent markers of a tree carry the same branchNodeId.
C27_MarkersNameChildren ==
  \A t \in 1..Len(treesById) :
    /\ \A at \in PermanentMarkers(treesById[t]) :
         \E k \in 1..Len(treesById[t].nodesById) :
           /\ ToString(treesById[t].nodesById[k].id) = BranchNodeIdAt(treesById[t], at)
           /\ treesById[t].nodesById[k].parentId = treesById[t].nodesById[at[1]].id
    /\ \A at \in PermanentMarkers(treesById[t]), other \in PermanentMarkers(treesById[t]) :
         at # other => BranchNodeIdAt(treesById[t], at) # BranchNodeIdAt(treesById[t], other)

\* every node of trees other than node nodeId of tree treeId is as in before
OtherNodesKept(before, trees, treeId, nodeId) ==
  /\ Len(trees) = Len(before)
  /\ \A t \in 1..Len(before) :
       /\ trees[t].id = before[t].id
       /\ trees[t].title = before[t].title
       /\ trees[t].activeNodeId = before[t].activeNodeId
       /\ Len(trees[t].nodesById) = Len(before[t].nodesById)
       /\ \A j \in 1..Len(before[t].nodesById) :
            (before[t].id # treeId \/ before[t].nodesById[j].id # nodeId)
              => trees[t].nodesById[j] = before[t].nodesById[j]

\* node is before with one assistant message appended and nothing else changed
ReplyAppended(before, node) ==
  /\ node = [before EXCEPT !.messages = node.messages]
  /\ Len(node.messages) = Len(before.messages) + 1
  /\ SubSeq(node.messages, 1, Len(before.messages)) = before.messages
  /\ node.messages[Len(node.messages)].role = "assistant"

\* C28: the reply of a composer send is appended to the node and tree that
\* were active when handleSend ran, and changes no other node, also when
\* another node or another tree is active by the time it arrives.
C28_ReplyGoesToSendingNode ==
  /\ [][\A content \in SendContents :
          handleSend(content)
            => Request("sendReply", activeTreeId, ActiveNodeIdOf(treesById, activeTreeId))
                 \in inflight' \ inflight]_vars
  /\ [][\A r \in inflight, data \in Replies :
          sendReplySucceeds(r, data)
            => /\ OtherNodesKept(treesById, treesById', r.treeId, r.nodeId)
               /\ HasNodeOf(treesById, r)
                    => ReplyAppended(NodeOf(treesById, r), NodeOf(treesById', r))]_vars

\* a composer reply has arrived while another node or tree was active
C28_Witness ==
  /\ "replyAway" \in seen
  /\ ~isLoading

\* the composer sends whose reply request has not completed
SendsInFlight == {r \in inflight : r.kind = "sendReply"}

\* C29: at most one composer send is in flight; isLoading is true exactly
\* while one is, from the handleSend that starts it until its reply request
\* completes; handleSend does nothing while isLoading is true; and isLoading is
\* false after every completion, success or failure, also when the tree the
\* send was made in has been deleted.
C29_OneSendInFlight ==
  /\ [](Cardinality(SendsInFlight) <= 1 /\ (isLoading <=> SendsInFlight # {}))
  /\ [][\A content \in SendContents :
          handleSend(content)
            => ~isLoading /\ isLoading' /\ Cardinality(SendsInFlight') = 1]_vars
  /\ [][(isLoading /\ isLoading') => SendsInFlight' = SendsInFlight]_vars
  /\ [][\A r \in SendsInFlight :
          ((\E data \in Replies : sendReplySucceeds(r, data)) \/ sendReplyFails(r))
            => ~isLoading' /\ SendsInFlight' = {}]_vars

\* the reply request of a send has completed after its tree was deleted, and
\* the composer is free again
C29_Witness ==
  /\ "sendAfterDelete" \in seen
  /\ ~isLoading
  /\ SendsInFlight = {}

\* node nodeId of tree treeId exists and waits for its reply
Pending(treeId, nodeId) ==
  /\ Has(treesById, treeId)
  /\ Has(NodesOf(treesById, treeId), nodeId)
  /\ Get(NodesOf(treesById, treeId), nodeId).requestStatus = "pending"

\* C30: every branch node that is pending eventually is not: when its reply
\* request completes it becomes ready or idle, and no node stays pending
\* forever, also when the page is loaded again from what was persisted while
\* the request is in flight.
C30_PendingEventuallyLeaves ==
  \A treeId \in TreeIdPool, nodeId \in NodeIdPool :
    Pending(treeId, nodeId) ~> ~Pending(treeId, nodeId)

\* the steps that settle a reply request are the steps that complete it
SettlesIsCompletes ==
  [][\A treeId \in TreeIdPool, nodeId \in NodeIdPool :
       BranchReplySettles(treeId, nodeId) <=> BranchReplyCompletes(treeId, nodeId)]_vars
====
